---- MODULE Spec2Model ----
(***************************************************************************)
(* Model of the report builder of fx-report-test (Streamlit script).       *)
(*                                                                         *)
(* Text representation.  A paragraph is a sequence of tokens.  A token is  *)
(* either a whole sentence INCLUDING its terminating full stop (the       *)
(* Japanese "maru"), named by an ASCII identifier, or the token SP, one    *)
(* space character.  CharLen gives the number of characters of a token as  *)
(* Python's len() counts them, so character counts against the configured  *)
(* minimums (180 / 220) are the real ones.                                 *)
(*                                                                         *)
(*   addon       pad_para2's fixed filler sentence              (50 chars) *)
(*   c_chushi    "yukue wo chushi shitai."       whitelist closer  (9)     *)
(*   c_keikai    "neugoki niwa keikai shitai."   whitelist closer  (11)    *)
(*   c_seikan    "tomen wa seikan to shitai."    whitelist closer  (10)    *)
(*   c_youchui   "ichidan no hendo ni youchui to shitai."          (14)    *)
(*   c_miki      "hokokan wo mikiwametai."       whitelist closer  (10)    *)
(*   c_hokosei   "hokosei wo mikiwametai."  closer known to the polish     *)
(*               step only, not on the whitelist                  (10)    *)
(*   s40, s90, s130   draft body sentences of 40 / 90 / 130 characters     *)
(*   sBan        a 30-character draft sentence containing a banned word    *)
(*   safe        _extend_para2_if_short's last-resort sentence      (12)   *)
(*   g1, g2      sentences of the boilerplate pool (YAML file)   (11, 14)  *)
(*   f1 .. f4    fillers of _enforce_length_bounds       (23, 18, 16, 16)  *)
(*   bp_up, bp_dn  break-point sentences of _pad_para2_to_min    (27, 22)  *)
(*   range, bbx, bbs, sma  fillers of _pad_para2_to_min  (30, 31, 33, 45)  *)
(*   pf_hanno, pf_sma  first and last filler of _pad_to_min_length (9, 27) *)
(*               (pf_sma contains the text of pf_hanno)                    *)
(*   tpl_usdjpy .. tpl_btcusd  the paragraph-2 templates of the nine pairs *)
(*               of PAIR_TEMPLATES_MOCK, each one token; tpl_gbpjpy holds  *)
(*               two banned words; tpl_audjpy is the generic template for  *)
(*               a pair without one (written out for that pair)            *)
(*   maru        a full stop on its own                              (1)   *)
(***************************************************************************)
EXTENDS Integers, Sequences, FiniteSets, TLC

VARIABLES
    pc,             \* position of the running script (one Streamlit run)
    runs,           \* number of script runs started so far
    title_tail,     \* st.session_state["title_tail"]
    p1,             \* paragraph 1 (p1 / para1_clean / para1_final)
    p2,             \* paragraph 2 (p2 / para2_clean / para2_final)
    ss_para2_final, \* st.session_state["para2_final"]: <<>> unset, <<t>> set
    recall_ok,      \* the line "honjitsu no shihyo wa, ..." is one block
    viol,           \* the list viol of the layout check, as a set
    sink,           \* what this run gave save_path.write_text: <<>> or <<report>>
    stages,         \* assembly stages this run went through, in order
    fn,             \* the function applied to arg ("none": not applied yet)
    arg,            \* the argument of a function under test
    res             \* the value the function returned

buildvars == <<pc, runs, title_tail, p1, p2, ss_para2_final, recall_ok, viol, sink, stages>>

fnvars == <<fn, arg, res>>

vars == <<buildvars, fnvars>>

----------------------------------------------------------------------------
(* Bounds of the model *)

MaxDraftSents == 2
MaxRuns == 2

----------------------------------------------------------------------------
(* Program constants *)

P1_MIN_CHARS == 220
P2_MIN_CHARS == 180

SP == "SP"

ALLOWED_TITLE_TAILS == <<"chushi_ka", "keikai_ka", "seikan_ka", "youchui_ka", "mikiwametai">>

ALLOWED_PARA2_CLOSERS == <<"c_chushi", "c_keikai", "c_seikan", "c_youchui", "c_miki">>

PolishClosers == {"c_miki", "c_hokosei", "c_chushi", "c_keikai", "c_seikan", "c_youchui"}

BodySents == {"s40", "s90", "s130", "sBan"}

\* Filler sentences of the padding functions (see the header of each).
FillerSents == {"addon", "safe", "g1", "g2", "f1", "f2", "f3", "f4",
                "bp_up", "bp_dn", "range", "bbx", "bbs", "sma",
                "pf_hanno", "pf_sma"}

Sentences == BodySents \cup PolishClosers \cup FillerSents

\* A full stop on its own (an empty sentence).
MARU == "maru"

CharLen(tok) ==
    CASE tok = SP          -> 1
      [] tok = "addon"     -> 50
      [] tok = "c_chushi"  -> 9
      [] tok = "c_keikai"  -> 11
      [] tok = "c_seikan"  -> 10
      [] tok = "c_youchui" -> 14
      [] tok = "c_miki"    -> 10
      [] tok = "c_hokosei" -> 10
      [] tok = "s40"       -> 40
      [] tok = "s90"       -> 90
      [] tok = "s130"      -> 130
      [] tok = "sBan"      -> 30
      [] tok = MARU        -> 1
      [] tok = "safe"      -> 12
      [] tok = "g1"        -> 11
      [] tok = "g2"        -> 14
      [] tok = "f1"        -> 23
      [] tok = "f2"        -> 18
      [] tok = "f3"        -> 16
      [] tok = "f4"        -> 16
      [] tok = "bp_up"     -> 27
      [] tok = "bp_dn"     -> 22
      [] tok = "range"     -> 30
      [] tok = "bbx"       -> 31
      [] tok = "bbs"       -> 33
      [] tok = "sma"       -> 45
      [] tok = "pf_hanno"  -> 9
      [] tok = "pf_sma"    -> 27
      [] tok = "tpl_usdjpy" -> 137
      [] tok = "tpl_eurusd" -> 87
      [] tok = "tpl_eurjpy" -> 78
      [] tok = "tpl_gbpusd" -> 86
      [] tok = "tpl_gbpjpy" -> 93
      [] tok = "tpl_audusd" -> 86
      [] tok = "tpl_nzdusd" -> 81
      [] tok = "tpl_xauusd" -> 84
      [] tok = "tpl_btcusd" -> 89
      [] tok = "tpl_audjpy" -> 115

----------------------------------------------------------------------------
(* Python string primitives on token sequences *)

RECURSIVE TextLen(_)
TextLen(t) == IF t = <<>> THEN 0 ELSE CharLen(Head(t)) + TextLen(Tail(t))

Range(t) == {t[i] : i \in 1..Len(t)}

Last(t) == t[Len(t)]

Front(t) == SubSeq(t, 1, Len(t) - 1)

RECURSIVE LStrip(_)
LStrip(t) == IF t # <<>> /\ Head(t) = SP THEN LStrip(Tail(t)) ELSE t

RECURSIVE RStrip(_)
RStrip(t) == IF t # <<>> /\ Last(t) = SP THEN RStrip(Front(t)) ELSE t

Strip(t) == LStrip(RStrip(t))

EndsWithMaru(t) == t # <<>> /\ Last(t) # SP

RECURSIVE SeqToSet(_)
SeqToSet(s) == IF s = <<>> THEN {} ELSE {Head(s)} \cup SeqToSet(Tail(s))

_allowed_closers == SeqToSet(ALLOWED_PARA2_CLOSERS)

_ends_with_closer(s) == s # <<>> /\ Last(s) \in _allowed_closers

----------------------------------------------------------------------------
(* Paragraph 2: padding, closer, polish (final build section) *)

\* pad_para2 of the final build section: one fixed filler sentence, appended
\* at the end of the text, and only when it is not in the text already.
pad_para2(para2, min_chars) ==
    LET base == Strip(para2) IN
    IF TextLen(base) >= min_chars THEN base
    ELSE IF "addon" \notin Range(base)
         THEN (IF base # <<>> /\ ~EndsWithMaru(base) THEN base \o <<SP>> ELSE base)
              \o <<"addon">>
         ELSE base

\* closer_map of the final build section and of _final_polish_and_guard.
closer_map(tail) ==
    CASE tail = "chushi_ka"   -> "c_chushi"
      [] tail = "keikai_ka"   -> "c_keikai"
      [] tail = "seikan_ka"   -> "c_seikan"
      [] tail = "youchui_ka"  -> "c_youchui"
      [] tail = "mikiwametai" -> "c_miki"
      [] OTHER                -> ""

InCloserMap(tail) == closer_map(tail) # ""

\* desired = closer_map.get(tail, "hokokan wo mikiwametai.")
desired_closer(tail) == IF InCloserMap(tail) THEN closer_map(tail) ELSE "c_miki"

\* p2 = re.sub(r"(<whitelist closer>)$", "", p2).rstrip(maru) + maru + desired
set_desired_closer(text, tail) ==
    LET cut == IF text # <<>> /\ Last(text) \in _allowed_closers
               THEN Front(text) ELSE text
    IN  Strip(cut \o <<desired_closer(tail)>>)

\* _clean_text_jp_safe: NFKC, runs of spaces collapsed to one, doubled full
\* stops collapsed; on token sequences: strip, and adjacent SP tokens merged.
RECURSIVE CollapseSpaces(_)
CollapseSpaces(t) ==
    IF Len(t) < 2 THEN t
    ELSE IF t[1] = SP /\ t[2] = SP THEN CollapseSpaces(Tail(t))
    ELSE <<Head(t)>> \o CollapseSpaces(Tail(t))

_clean_text_jp_safe(t) == CollapseSpaces(Strip(t))

RECURSIVE SelectTok(_, _)
SelectTok(t, S) ==
    IF t = <<>> THEN <<>>
    ELSE IF Head(t) \in S THEN <<Head(t)>> \o SelectTok(Tail(t), S)
    ELSE SelectTok(Tail(t), S)

\* step 6 of _final_polish_and_guard: order-preserving removal of repeated
\* sentences (the first occurrence stays).
RECURSIVE UniqFrom(_, _)
UniqFrom(t, seen) ==
    IF t = <<>> THEN <<>>
    ELSE IF Head(t) \in seen THEN UniqFrom(Tail(t), seen)
    ELSE <<Head(t)>> \o UniqFrom(Tail(t), seen \cup {Head(t)})

\* _final_polish_and_guard(text, para): sentences split on the full stop and
\* stripped (no space survives), repeated sentences dropped, every closer
\* taken out of the body and one closer put back at the end: for para = "p2"
\* with a title tail of closer_map the mapped closer, otherwise the closer
\* that occurs last in the text (none if the text has none).
_final_polish_and_guard(text, para, tail) ==
    LET t     == SelectTok(text, Sentences)
        uniq  == UniqFrom(t, {})
        found == SelectTok(t, PolishClosers)
        body  == SelectTok(uniq, Sentences \ PolishClosers)
    IN  IF para = "p2" /\ InCloserMap(tail)
        THEN body \o <<closer_map(tail)>>
        ELSE IF found # <<>> THEN body \o <<Last(found)>>
        ELSE uniq

----------------------------------------------------------------------------
(* Inputs of one script run *)

NoTail == ""

TitleTails == SeqToSet(ALLOWED_TITLE_TAILS) \cup {NoTail}

RECURSIVE SeqsUpTo(_, _)
SeqsUpTo(S, n) ==
    IF n = 0 THEN {<<>>}
    ELSE LET shorter == SeqsUpTo(S, n - 1)
         IN  shorter \cup {Append(t, x) : t \in shorter, x \in S}

\* Drafts of paragraph 2 handed to the build section (globals()["p2"]).
P2Drafts == SeqsUpTo({"s40", "s130", "sBan", "c_keikai"}, MaxDraftSents)

\* Drafts of paragraph 1 (globals()["p1"], after the points hint).
P1Drafts == SeqsUpTo({"s130", "s90"}, MaxDraftSents) \ {<<>>}

ban_words == {"sBan", "tpl_gbpjpy"}

----------------------------------------------------------------------------
(* The final build section, one action per step of the script *)

Init ==
    /\ pc = "start"
    /\ runs = 1
    /\ title_tail \in TitleTails
    /\ p1 = <<>>
    /\ p2 \in P2Drafts
    /\ ss_para2_final = <<>>
    /\ recall_ok = TRUE
    /\ viol = {}
    /\ sink = <<>>
    /\ stages = <<"Draft">>
    /\ fn = "none"
    /\ arg = <<>>
    /\ res = <<>>

\* p2 = pad_para2(p2, min_chars=180)
PadDraft ==
    /\ pc = "start"
    /\ p2' = pad_para2(p2, P2_MIN_CHARS)
    /\ stages' = Append(stages, "Padded")
    /\ pc' = "padded"
    /\ UNCHANGED <<runs, title_tail, p1, ss_para2_final, recall_ok, viol, sink>>
    /\ UNCHANGED fnvars

\* desired closer by title tail; para2_clean
SetCloser ==
    /\ pc = "padded"
    /\ p2' = _clean_text_jp_safe(set_desired_closer(p2, title_tail))
    /\ pc' = "closer_set"
    /\ UNCHANGED <<runs, title_tail, p1, ss_para2_final, recall_ok, viol, sink, stages>>
    /\ UNCHANGED fnvars

\* "final cleanup": the session's para2_final wins over this run's text,
\* then pad_para2, then the default closer when no whitelist closer ends it.
FinalCleanup ==
    /\ pc = "closer_set"
    /\ LET src    == IF ss_para2_final # <<>> THEN ss_para2_final[1] ELSE p2
           padded == pad_para2(_clean_text_jp_safe(src), P2_MIN_CHARS)
       IN  p2' = IF _ends_with_closer(padded) THEN padded
                 ELSE padded \o <<"c_miki">>
    /\ stages' = Append(stages, "Padded")
    /\ pc' = "cleaned"
    /\ UNCHANGED <<runs, title_tail, p1, ss_para2_final, recall_ok, viol, sink>>
    /\ UNCHANGED fnvars

\* para1_final / para2_final = _final_polish_and_guard(...); paragraph 1 is
\* this run's draft (read here for the first time), cleaned and polished.
Polish ==
    /\ pc = "cleaned"
    /\ \E draft1 \in P1Drafts :
          p1' = _final_polish_and_guard(_clean_text_jp_safe(draft1), "p1", title_tail)
    /\ p2' = _final_polish_and_guard(p2, "p2", title_tail)
    /\ stages' = Append(stages, "Polished")
    /\ pc' = "polished"
    /\ UNCHANGED <<runs, title_tail, ss_para2_final, recall_ok, viol, sink>>
    /\ UNCHANGED fnvars

\* para2_final = pad_para2(para2_final, 180) after the polish;
\* st.session_state["para2_final"] = para2_final; then the last line of the
\* report (calendar line plus title recall) is made: it is one block unless
\* the recall text supplied by the session holds a blank line.
PadAfterPolish ==
    /\ pc = "polished"
    /\ p2' = pad_para2(p2, P2_MIN_CHARS)
    /\ ss_para2_final' = <<p2'>>
    /\ recall_ok' \in BOOLEAN
    /\ stages' = Append(stages, "Padded")
    /\ pc' = "assembled"
    /\ UNCHANGED <<runs, title_tail, p1, viol, sink>>
    /\ UNCHANGED fnvars

\* the layout check: viol
ViolOf(para1, para2, p3ok) ==
    (IF TextLen(SelectTok(para1, Sentences \cup {SP})) < P1_MIN_CHARS THEN {"p1_min_chars"} ELSE {})
    \cup (IF TextLen(para2) < P2_MIN_CHARS THEN {"p2_min_chars"} ELSE {})
    \cup (IF (Range(para1) \cup Range(para2)) \cap ban_words # {} THEN {"ban_words"} ELSE {})
    \cup (IF ~p3ok THEN {"p3_layout"} ELSE {})

Validate ==
    /\ pc = "assembled"
    /\ viol' = ViolOf(p1, p2, recall_ok)
    /\ stages' = Append(stages, "Validated")
    /\ pc' = "validated"
    /\ UNCHANGED <<runs, title_tail, p1, p2, ss_para2_final, recall_ok, sink>>
    /\ UNCHANGED fnvars

\* save_path.write_text(text_to_show) and the download button: unconditional
Save ==
    /\ pc = "validated"
    /\ sink' = <<[para1 |-> p1, para2 |-> p2, p3ok |-> recall_ok]>>
    /\ stages' = Append(stages, "Final")
    /\ pc' = "saved"
    /\ UNCHANGED <<runs, title_tail, p1, p2, ss_para2_final, recall_ok, viol>>
    /\ UNCHANGED fnvars

\* Streamlit runs the script again on the next interaction: new drafts and
\* title tail, the session state kept.
Rerun ==
    /\ pc = "saved"
    /\ runs < MaxRuns
    /\ runs' = runs + 1
    /\ title_tail' \in TitleTails
    /\ p1' = <<>>
    /\ p2' \in P2Drafts
    /\ recall_ok' = TRUE
    /\ viol' = {}
    /\ sink' = <<>>
    /\ stages' = <<"Draft">>
    /\ pc' = "start"
    /\ UNCHANGED ss_para2_final
    /\ UNCHANGED fnvars

Next ==
    \/ PadDraft
    \/ SetCloser
    \/ FinalCleanup
    \/ Polish
    \/ PadAfterPolish
    \/ Validate
    \/ Save
    \/ Rerun

Spec == Init /\ [][Next]_vars

----------------------------------------------------------------------------
(* Claims about the text handed to the output sink *)

Shipped == sink # <<>>

ShippedPara1 == sink[1].para1

ShippedPara2 == sink[1].para2

\* C1: whenever the report text is handed to the output sink, paragraph 1
\* has at least 220 characters and paragraph 2 at least 180.
C1_ShippedMeetsMinimums ==
    Shipped => /\ TextLen(ShippedPara1) >= P1_MIN_CHARS
               /\ TextLen(ShippedPara2) >= P2_MIN_CHARS

ReEntered ==
    \E i, j \in 1..Len(stages) :
        i < j /\ stages[i] = "Validated" /\ stages[j] = "Padded"

\* C3: the text is written to the sink only when the validation report is
\* empty or the retries are used up: a text written with violations has been
\* through the re-entry (pad, re-validate) at least once.
C3_WrittenOnlyWhenCleanOrRetried ==
    (Shipped /\ viol # {}) => ReEntered

\* The rules the final text breaks, by name: the two minimum lengths, the
\* banned vocabulary, the layout of the last block, the closing sentence.
RulesBroken(report) ==
    ViolOf(report.para1, report.para2, report.p3ok)
    \cup (IF report.para2 = <<>> \/ Last(report.para2) \notin _allowed_closers
          THEN {"p2_closer"} ELSE {})

StageOrder == <<"Draft", "Padded", "Polished", "Validated", "Final">>

StageRank(st) == CHOOSE k \in 1..Len(StageOrder) : StageOrder[k] = st

\* C5: stages follow one another in the order Draft, Padded, Polished,
\* Validated, Final (a stage may repeat); the one step backwards is from
\* Validated to Padded.
C5_StagesInOrder ==
    \A i \in 1..(Len(stages) - 1) :
        \/ StageRank(stages[i + 1]) >= StageRank(stages[i])
        \/ (stages[i] = "Validated" /\ stages[i + 1] = "Padded")

----------------------------------------------------------------------------
(* The padding functions *)

\* pad_para2 of app.py: as pad_para2 above, without the "already there" test.
pad_para2_app(para2, min_chars) ==
    LET base == Strip(para2) IN
    IF TextLen(base) >= min_chars THEN base
    ELSE (IF base # <<>> /\ ~EndsWithMaru(base) THEN base \o <<SP>> ELSE base)
         \o <<"addon">>

\* _split_off_closer: <<body, closer>>; closer is "" when the text does not
\* end with one of closers.
_split_off_closer(text, closers) ==
    LET t == RStrip(text) IN
    IF t # <<>> /\ Last(t) \in closers
    THEN <<RStrip(Front(t)), Last(t)>>
    ELSE <<t, "">>

\* the while loop of _extend_para2_if_short over the pool, from index i
RECURSIVE ExtendLoop(_, _, _, _, _)
ExtendLoop(out, pool, i, used, min_chars) ==
    IF ~(TextLen(out) < min_chars /\ i <= Len(pool)) THEN out
    ELSE LET sent == pool[i] IN
         IF sent \in used THEN ExtendLoop(out, pool, i + 1, used, min_chars)
         ELSE ExtendLoop(out \o <<SP, sent>>, pool, i + 1, used \cup {sent}, min_chars)

\* _extend_para2_if_short(para2, pair, min_chars, closers); pool is
\* generic + per_pair[pair] of the boilerplate file.
_extend_para2_if_short(para2, pool, min_chars, closers) ==
    LET split  == _split_off_closer(para2, closers)
        body   == Strip(split[1])
        closer == split[2]
        base   == IF EndsWithMaru(body) THEN body ELSE body \o <<MARU>>
        tail   == IF closer # "" THEN <<SP, closer>> ELSE <<>>
    IN  IF TextLen(base) >= min_chars THEN Strip(base \o tail)
        ELSE LET looped == ExtendLoop(base, pool, 1, {}, min_chars)
                 out    == IF TextLen(looped) < min_chars
                           THEN looped \o <<SP, "safe">> ELSE looped
             IN  Strip(out \o tail)

\* substring tests of _pad_para2_to_min on the text
MentionsRange(t) == "range" \in Range(t)

MentionsBB(t) == Range(t) \cap {"addon", "bbx", "bbs"} # {}

MentionsSMA(t) == Range(t) \cap {"addon", "sma"} # {}

RECURSIVE AppendMissing(_, _)
AppendMissing(t, adds) ==
    IF adds = <<>> THEN t
    ELSE AppendMissing(IF Head(adds) \in Range(t) THEN t ELSE Append(t, Head(adds)),
                       Tail(adds))

RECURSIVE FillToMin(_, _, _)
FillToMin(t, fillers, min_len) ==
    IF fillers = <<>> \/ TextLen(t) >= min_len THEN t
    ELSE FillToMin(IF Head(fillers) \in Range(t) THEN t ELSE Append(t, Head(fillers)),
                   Tail(fillers), min_len)

\* _pad_para2_to_min(text, min_len) with the session's break points
\* (up_ok / dn_ok: _choose_breakpoints gave a usable upper / lower level) and
\* bb_state ("none", "expand", "shrink").
_pad_para2_to_min(text, min_len, up_ok, dn_ok, bb_state) ==
    LET t0  == Strip(text)
        bps == (IF up_ok THEN <<"bp_up">> ELSE <<>>) \o (IF dn_ok THEN <<"bp_dn">> ELSE <<>>)
        t   == AppendMissing(t0, bps)
        fillers ==
            (IF ~MentionsRange(t) THEN <<"range">> ELSE <<>>)
            \o (IF bb_state # "none" /\ ~MentionsBB(t)
                THEN (IF bb_state = "expand" THEN <<"bbx">> ELSE <<"bbs">>) ELSE <<>>)
            \o (IF ~MentionsSMA(t) THEN <<"sma">> ELSE <<>>)
    IN  FillToMin(t, fillers, min_len)

\* _CLOSE_STEMS: the sentences of the model that contain one of the stems
_CLOSE_STEMS == {"c_keikai", "pf_hanno", "pf_sma"}

ENFORCE_MAX_FILLERS == 2

EnforceFillers == <<"f1", "f2", "f3", "f4">>

\* the while loop of _enforce_length_bounds (start = 0: _stable_pick is
\* handed a list of integers, so its pick is never one of the fillers)
RECURSIVE EnforceLoop(_, _, _, _)
EnforceLoop(sents, add_cnt, has_close, min_len) ==
    IF ~(TextLen(sents) < min_len /\ add_cnt < ENFORCE_MAX_FILLERS) THEN sents
    ELSE LET cand == EnforceFillers[(add_cnt % Len(EnforceFillers)) + 1]
             before_last == has_close \/ (sents # <<>> /\ Last(sents) \in _CLOSE_STEMS)
         IN  IF cand \in Range(sents)
             THEN EnforceLoop(sents, add_cnt + 1, has_close, min_len)
             ELSE EnforceLoop(IF before_last
                              THEN Front(sents) \o <<cand, Last(sents)>>
                              ELSE Append(sents, cand),
                              add_cnt + 1, has_close, min_len)

RECURSIVE TrimToMax(_, _, _)
TrimToMax(trimmed, closer_final, max_len) ==
    IF trimmed # <<>> /\ TextLen(trimmed \o closer_final) > max_len
    THEN TrimToMax(Front(trimmed), closer_final, max_len)
    ELSE trimmed \o closer_final

\* _enforce_length_bounds(text, min_len, max_len) on a text without spaces
\* (its caller hands it the output of _tidy_para2).  No sentence of the
\* model is longer than max_len, so the character-level cut of the last
\* line of the function is never reached.
_enforce_length_bounds(text, min_len, max_len) ==
    LET t      == SelectTok(text, Sentences)
        closes == SelectTok(t, _CLOSE_STEMS)
        has_close == closes # <<>>
        sents  == IF has_close
                  THEN SelectTok(t, Sentences \ _CLOSE_STEMS) \o <<Last(closes)>>
                  ELSE t
        padded == EnforceLoop(sents, 0, has_close, min_len)
    IN  IF t = <<>> THEN t
        ELSE IF TextLen(padded) > max_len
        THEN IF Last(padded) \in _CLOSE_STEMS
             THEN TrimToMax(Front(padded), <<Last(padded)>>, max_len)
             ELSE TrimToMax(padded, <<>>, max_len)
        ELSE padded

----------------------------------------------------------------------------
(* The padding functions applied to one paragraph each *)

MaxPadToks == 3

ENFORCE_MIN_LEN == 180

ENFORCE_MAX_LEN == 210

\* The build section at rest (the script is not running).
BuildIdle ==
    /\ pc = "idle"
    /\ runs = 0
    /\ title_tail = NoTail
    /\ p1 = <<>>
    /\ p2 = <<>>
    /\ ss_para2_final = <<>>
    /\ recall_ok = TRUE
    /\ viol = {}
    /\ sink = <<>>
    /\ stages = <<>>

\* Paragraphs handed to a padding function: stripped texts.
PadInputs ==
    {t \in SeqsUpTo({"s40", "s90", "s130", "c_keikai", "c_chushi", SP}, MaxPadToks) :
        Strip(t) = t}

\* Contents of the boilerplate pool file.
Pools == SeqsUpTo({"g1", "g2"}, 2)

InitPad ==
    /\ BuildIdle
    /\ fn = "none"
    /\ arg \in PadInputs
    /\ res = <<>>

Call_pad_para2 ==
    /\ fn = "none"
    /\ fn' = "pad_para2"
    /\ res' = pad_para2(arg, P2_MIN_CHARS)
    /\ UNCHANGED <<arg, buildvars>>

Call_pad_para2_app ==
    /\ fn = "none"
    /\ fn' = "pad_para2_app"
    /\ res' = pad_para2_app(arg, P2_MIN_CHARS)
    /\ UNCHANGED <<arg, buildvars>>

Call_extend_para2_if_short ==
    /\ fn = "none"
    /\ fn' = "_extend_para2_if_short"
    /\ \E pool \in Pools :
          res' = _extend_para2_if_short(arg, pool, P2_MIN_CHARS, _allowed_closers)
    /\ UNCHANGED <<arg, buildvars>>

Call_pad_para2_to_min ==
    /\ fn = "none"
    /\ fn' = "_pad_para2_to_min"
    /\ \E up_ok \in BOOLEAN, dn_ok \in BOOLEAN, bb_state \in {"none", "expand", "shrink"} :
          res' = _pad_para2_to_min(arg, P2_MIN_CHARS, up_ok, dn_ok, bb_state)
    /\ UNCHANGED <<arg, buildvars>>

Call_enforce_length_bounds ==
    /\ fn = "none"
    /\ SP \notin Range(arg)
    /\ fn' = "_enforce_length_bounds"
    /\ res' = _enforce_length_bounds(arg, ENFORCE_MIN_LEN, ENFORCE_MAX_LEN)
    /\ UNCHANGED <<arg, buildvars>>

NextPad ==
    \/ Call_pad_para2
    \/ Call_pad_para2_app
    \/ Call_extend_para2_if_short
    \/ Call_pad_para2_to_min
    \/ Call_enforce_length_bounds

SpecPad == InitPad /\ [][NextPad]_vars

Padded == fn # "none"

\* C6: for every paragraph whose character count is at or above the minimum,
\* each padding operation returns the paragraph unchanged.
C6_PaddingSufficientIsNoOp ==
    (Padded /\ TextLen(arg) >= P2_MIN_CHARS) => res = arg

IsPrefix(a, b) == Len(a) <= Len(b) /\ SubSeq(b, 1, Len(a)) = a

\* C7: when padding adds to a paragraph that ends with a closing sentence,
\* the text before the closing sentence stays where it was, at the front, and
\* the closing sentence is still the last sentence.
C7_PaddingKeepsCloserLast ==
    (Padded /\ arg # <<>> /\ Last(arg) \in _allowed_closers /\ res # arg) =>
        /\ IsPrefix(RStrip(Front(arg)), res)
        /\ Last(res) = Last(arg)

----------------------------------------------------------------------------
(* build_title_recall: titles are sequences of characters.                 *)
(* Characters by reading: chuu shi moku you kei kai i sei kan mi kiwa sada  *)
(* are the kanji of chuushi (watch), chuumoku (attention), youchuui,        *)
(* keikai (caution), seikan (wait and see), mikiwame, misadame; ka ni wo no *)
(* to ko ro si ta ii me are kana; hou kou kan2 spell "hokokan" (sense of    *)
(* direction); maru is the full stop; X is any other character.            *)

MaxStemLen == 2

S_chuushi_ka    == <<"chuu", "shi", "ka">>
S_youchuumoku_ka == <<"you", "chuu", "moku", "ka">>
S_chuumoku_ka   == <<"chuu", "moku", "ka">>
S_keikai_ka     == <<"kei", "kai", "ka">>
S_chuui_ka      == <<"chuu", "i", "ka">>
S_youchuui_ka   == <<"you", "chuu", "i", "ka">>
S_seikan_ka     == <<"sei", "kan", "ka">>
S_mikiwametai   == <<"mi", "kiwa", "me", "ta", "ii">>
S_misadametai   == <<"mi", "sada", "me", "ta", "ii">>
S_tokoroka      == <<"to", "ko", "ro", "ka">>
S_shitai        == <<"si", "ta", "ii", "maru">>
S_hokokan       == <<"no", "hou", "kou", "kan2">>

\* _SUFFIX_TO_RECALL of modules/writer.py, in the order the dict is written
\* (the order build_title_recall walks it): <<suffix, recall ending>>.
_SUFFIX_TO_RECALL == <<
    <<S_chuushi_ka,                <<"chuu", "shi">> \o S_shitai>>,
    <<S_youchuumoku_ka,            <<"chuu", "moku">> \o S_shitai>>,
    <<S_chuumoku_ka,               <<"chuu", "moku">> \o S_shitai>>,
    <<S_keikai_ka,                 <<"kei", "kai">> \o S_shitai>>,
    <<S_chuui_ka,                  <<"chuu", "i">> \o S_shitai>>,
    <<S_youchuui_ka,               <<"you", "chuu", "i", "to">> \o S_shitai>>,
    <<S_seikan_ka,                 <<"sei", "kan">> \o S_shitai>>,
    <<S_mikiwametai \o S_tokoroka, S_mikiwametai \o <<"maru">>>>,
    <<S_misadametai \o S_tokoroka, S_misadametai \o <<"maru">>>> >>

\* tail_map of build_title_recall in app.py, in its order.
tail_map == <<
    <<S_chuushi_ka,  <<"chuu", "shi">> \o S_shitai>>,
    <<S_keikai_ka,   <<"kei", "kai">> \o S_shitai>>,
    <<S_seikan_ka,   <<"sei", "kan">> \o S_shitai>>,
    <<S_youchuui_ka, <<"you", "chuu", "i", "to">> \o S_shitai>> >>

EndsWith(t, suf) ==
    Len(suf) <= Len(t) /\ SubSeq(t, Len(t) - Len(suf) + 1, Len(t)) = suf

DropLast(t, n) == SubSeq(t, 1, Len(t) - n)

RECURSIVE StripCh(_)
StripCh(t) ==
    IF t # <<>> /\ Head(t) = "sp" THEN StripCh(Tail(t))
    ELSE IF t # <<>> /\ Last(t) = "sp" THEN StripCh(Front(t))
    ELSE t

RECURSIVE RStripCh(_)
RStripCh(t) == IF t # <<>> /\ Last(t) = "sp" THEN RStripCh(Front(t)) ELSE t

\* the for loop of writer.build_title_recall over the table from entry i
RECURSIVE WriterLoop(_, _)
WriterLoop(t, i) ==
    IF i > Len(_SUFFIX_TO_RECALL)
    THEN IF EndsWith(t, <<"ka">>)
         THEN DropLast(t, 1) \o <<"ni", "chuu", "shi">> \o S_shitai
         ELSE IF ~EndsWith(t, <<"maru">>)
         THEN t \o <<"ni", "chuu", "shi">> \o S_shitai
         ELSE t
    ELSE LET suf    == _SUFFIX_TO_RECALL[i][1]
             recall == _SUFFIX_TO_RECALL[i][2]
         IN  IF EndsWith(t, suf) THEN DropLast(t, Len(suf)) \o recall
             ELSE WriterLoop(t, i + 1)

\* modules/writer.py: build_title_recall(title)
writer_build_title_recall(title) == WriterLoop(StripCh(title), 1)

\* str.replace(old, new): every occurrence, left to right
RECURSIVE Replace(_, _, _)
Replace(t, old, new) ==
    IF Len(t) < Len(old) THEN t
    ELSE IF SubSeq(t, 1, Len(old)) = old
         THEN new \o Replace(SubSeq(t, Len(old) + 1, Len(t)), old, new)
         ELSE <<Head(t)>> \o Replace(Tail(t), old, new)

RECURSIVE AppLoop(_, _)
AppLoop(t, i) ==
    IF i > Len(tail_map)
    THEN IF EndsWith(t, S_mikiwametai)
         THEN LET r == Replace(t, S_hokokan \o <<"ni">> \o S_mikiwametai,
                                  S_hokokan \o <<"wo">> \o S_mikiwametai)
              IN  IF EndsWith(r, <<"maru">>) THEN r ELSE r \o <<"maru">>
         ELSE IF EndsWith(t, <<"maru">>) THEN t ELSE t \o <<"maru">>
    ELSE LET q    == tail_map[i][1]
             fin  == tail_map[i][2]
             stem == RStripCh(DropLast(t, Len(q)))
         IN  IF EndsWith(t, q)
             THEN (IF EndsWith(fin, S_shitai) /\ ~EndsWith(stem, <<"ni">>)
                   THEN stem \o <<"ni">> ELSE stem) \o fin
             ELSE AppLoop(t, i + 1)

\* app.py: build_title_recall(title)
app_build_title_recall(title) == AppLoop(StripCh(title), 1)

Stems == SeqsUpTo({"X", "ni"}, MaxStemLen) \cup {<<"X">> \o S_hokokan \o <<"ni">>}

TitleEndings ==
    {_SUFFIX_TO_RECALL[i][1] : i \in 1..Len(_SUFFIX_TO_RECALL)}
    \cup {S_mikiwametai, <<"X", "ka">>, <<"X", "maru">>, <<"X">>}

Titles == {stem \o ending : stem \in Stems, ending \in TitleEndings}

InitRecall ==
    /\ BuildIdle
    /\ fn = "none"
    /\ arg \in Titles
    /\ res = <<>>

Call_writer_build_title_recall ==
    /\ fn = "none"
    /\ fn' = "writer.build_title_recall"
    /\ res' = writer_build_title_recall(arg)
    /\ UNCHANGED <<arg, buildvars>>

Call_app_build_title_recall ==
    /\ fn = "none"
    /\ fn' = "app.build_title_recall"
    /\ res' = app_build_title_recall(arg)
    /\ UNCHANGED <<arg, buildvars>>

NextRecall ==
    \/ Call_writer_build_title_recall
    \/ Call_app_build_title_recall

SpecRecall == InitRecall /\ [][NextRecall]_vars

\* C9: for every title that ends with a suffix listed in the suffix-to-recall
\* table, build_title_recall returns the title with that suffix replaced by
\* the recall ending the table gives for that suffix.
C9_RecallReplacesListedSuffix ==
    fn = "writer.build_title_recall" =>
        \A i \in 1..Len(_SUFFIX_TO_RECALL) :
            EndsWith(arg, _SUFFIX_TO_RECALL[i][1]) =>
                res = DropLast(arg, Len(_SUFFIX_TO_RECALL[i][1])) \o _SUFFIX_TO_RECALL[i][2]

----------------------------------------------------------------------------
(* Phrase selection.  Subjects usdjpy / eurusd stand for the pair names the *)
(* session holds; closing sentences are named as in the header, plus       *)
(* c_kimetsuke ("hard to call one direction"), c_yousu, c_hannou, c_fure   *)
(* of _closing_sentence; "i0".."i3" are the integers 0..3 that             *)
(* _enforce_length_bounds hands to _stable_pick.                           *)

MaxBuilds == 2

Pairs == {"usdjpy", "eurusd"}

AsofDates == {"2025-01-06", "2025-01-07", "2025-01-08", "2025-01-09", "2025-01-10"}

Categories == {"pad", "close:flat-flat", "close:normal:up-flat", "close:conflict:up-down"}

\* int(md5("pair|asof|category").hexdigest(), 16) % 12, computed from the
\* UTF-8 seed strings; 12 is a multiple of every candidate-list length used.
MD5Mod(seed) ==
    CASE
       seed = <<"usdjpy", "2025-01-06", "pad">> -> 5
    [] seed = <<"usdjpy", "2025-01-06", "close:flat-flat">> -> 1
    [] seed = <<"usdjpy", "2025-01-06", "close:normal:up-flat">> -> 4
    [] seed = <<"usdjpy", "2025-01-06", "close:conflict:up-down">> -> 10
    [] seed = <<"usdjpy", "2025-01-07", "pad">> -> 7
    [] seed = <<"usdjpy", "2025-01-07", "close:flat-flat">> -> 5
    [] seed = <<"usdjpy", "2025-01-07", "close:normal:up-flat">> -> 7
    [] seed = <<"usdjpy", "2025-01-07", "close:conflict:up-down">> -> 7
    [] seed = <<"usdjpy", "2025-01-08", "pad">> -> 6
    [] seed = <<"usdjpy", "2025-01-08", "close:flat-flat">> -> 6
    [] seed = <<"usdjpy", "2025-01-08", "close:normal:up-flat">> -> 6
    [] seed = <<"usdjpy", "2025-01-08", "close:conflict:up-down">> -> 0
    [] seed = <<"usdjpy", "2025-01-09", "pad">> -> 1
    [] seed = <<"usdjpy", "2025-01-09", "close:flat-flat">> -> 0
    [] seed = <<"usdjpy", "2025-01-09", "close:normal:up-flat">> -> 11
    [] seed = <<"usdjpy", "2025-01-09", "close:conflict:up-down">> -> 8
    [] seed = <<"usdjpy", "2025-01-10", "pad">> -> 6
    [] seed = <<"usdjpy", "2025-01-10", "close:flat-flat">> -> 4
    [] seed = <<"usdjpy", "2025-01-10", "close:normal:up-flat">> -> 10
    [] seed = <<"usdjpy", "2025-01-10", "close:conflict:up-down">> -> 2
    [] seed = <<"eurusd", "2025-01-06", "pad">> -> 5
    [] seed = <<"eurusd", "2025-01-06", "close:flat-flat">> -> 8
    [] seed = <<"eurusd", "2025-01-06", "close:normal:up-flat">> -> 5
    [] seed = <<"eurusd", "2025-01-06", "close:conflict:up-down">> -> 11
    [] seed = <<"eurusd", "2025-01-07", "pad">> -> 4
    [] seed = <<"eurusd", "2025-01-07", "close:flat-flat">> -> 8
    [] seed = <<"eurusd", "2025-01-07", "close:normal:up-flat">> -> 8
    [] seed = <<"eurusd", "2025-01-07", "close:conflict:up-down">> -> 2
    [] seed = <<"eurusd", "2025-01-08", "pad">> -> 9
    [] seed = <<"eurusd", "2025-01-08", "close:flat-flat">> -> 7
    [] seed = <<"eurusd", "2025-01-08", "close:normal:up-flat">> -> 11
    [] seed = <<"eurusd", "2025-01-08", "close:conflict:up-down">> -> 9
    [] seed = <<"eurusd", "2025-01-09", "pad">> -> 0
    [] seed = <<"eurusd", "2025-01-09", "close:flat-flat">> -> 9
    [] seed = <<"eurusd", "2025-01-09", "close:normal:up-flat">> -> 0
    [] seed = <<"eurusd", "2025-01-09", "close:conflict:up-down">> -> 0
    [] seed = <<"eurusd", "2025-01-10", "pad">> -> 8
    [] seed = <<"eurusd", "2025-01-10", "close:flat-flat">> -> 10
    [] seed = <<"eurusd", "2025-01-10", "close:normal:up-flat">> -> 8
    [] seed = <<"eurusd", "2025-01-10", "close:conflict:up-down">> -> 7

\* candidate list handed to _stable_pick for each category
CandsOf(category) ==
    CASE category = "pad" -> <<"i0", "i1", "i2", "i3">>
      [] category = "close:flat-flat" -> <<"c_kimetsuke", "c_yousu", "c_hannou">>
      [] category = "close:conflict:up-down" -> <<"c_fure", "c_keikai", "c_hannou">>
      [] OTHER -> <<"c_chushi", "c_miki", "c_kimetsuke">>

\* a selector that indexes the category's own list, not the list it was given
_stable_pick_own_list(cands, pair, asof, category) ==
    CandsOf(category)[(MD5Mod(<<pair, asof, category>>) % Len(CandsOf(category))) + 1]

_stable_pick(cands, pair, asof, category) ==
    IF cands = <<>> THEN ""
    ELSE cands[(MD5Mod(<<pair, asof, category>>) % Len(cands)) + 1]

\* what _llm_pick_from_list may hand back: a whitelist closer or something else
LLMAnswers == SeqToSet(ALLOWED_PARA2_CLOSERS) \cup {"", "other"}

\* choose_para2_closer: the LLM's answer if whitelisted, else random.choice
choose_para2_closer(picked, rnd) ==
    IF picked \in SeqToSet(ALLOWED_PARA2_CLOSERS) THEN picked
    ELSE ALLOWED_PARA2_CLOSERS[rnd]

AroundWords == <<"fukin", "zengo", "dokoro">>

InitPick ==
    /\ BuildIdle
    /\ fn = "none"
    /\ arg \in [pair : Pairs, asof : AsofDates, category : Categories]
    /\ res = <<>>

\* one more build selects with _stable_pick under the same key
Pick_stable_pick ==
    /\ fn \in {"none", "_stable_pick"}
    /\ Len(res) < MaxBuilds
    /\ fn' = "_stable_pick"
    /\ res' = Append(res, _stable_pick(CandsOf(arg.category), arg.pair, arg.asof, arg.category))
    /\ UNCHANGED <<arg, buildvars>>

\* one more build chooses the paragraph-2 closer
Pick_choose_para2_closer ==
    /\ fn \in {"none", "choose_para2_closer"}
    /\ Len(res) < MaxBuilds
    /\ fn' = "choose_para2_closer"
    /\ \E picked \in LLMAnswers, rnd \in 1..Len(ALLOWED_PARA2_CLOSERS) :
           res' = Append(res, choose_para2_closer(picked, rnd))
    /\ UNCHANGED <<arg, buildvars>>

\* one more build words the break-point sentence of _compose_para2_v21
Pick_around ==
    /\ fn \in {"none", "_compose_para2_v21"}
    /\ Len(res) < MaxBuilds
    /\ fn' = "_compose_para2_v21"
    /\ \E rnd \in 1..Len(AroundWords) : res' = Append(res, AroundWords[rnd])
    /\ UNCHANGED <<arg, buildvars>>

NextPick ==
    \/ Pick_stable_pick
    \/ Pick_choose_para2_closer
    \/ Pick_around

SpecPick == InitPick /\ [][NextPick]_vars

\* C10: two selections made with the same category, subject, date and
\* candidate list return the same element, so every phrase, filler and closer
\* chosen for a report is the same in two builds for the same subject and date.
C10_SameKeySamePhrase ==
    \A i, j \in 1..Len(res) : res[i] = res[j]

----------------------------------------------------------------------------
(* _stable_pick over successive dates, subject and category held fixed *)

InitRotate ==
    /\ BuildIdle
    /\ fn = "none"
    /\ arg \in [pair : Pairs, category : Categories, dates : {<<>>}]
    /\ res = <<>>

\* one more call, on a date not used before, until |L| dates were used
Rotate_stable_pick ==
    /\ Len(arg.dates) < Len(CandsOf(arg.category))
    /\ \E d \in AsofDates \ Range(arg.dates) :
          /\ arg' = [arg EXCEPT !.dates = Append(@, d)]
          /\ res' = Append(res, _stable_pick(CandsOf(arg.category), arg.pair, d, arg.category))
    /\ fn' = "_stable_pick"
    /\ UNCHANGED buildvars

NextRotate == Rotate_stable_pick

SpecRotate == InitRotate /\ [][NextRotate]_vars

\* C11: with category and subject fixed, selecting over |L| distinct dates
\* returns every element of the candidate list L at least once.
C11_RotatesThroughWholeList ==
    Len(res) = Len(CandsOf(arg.category)) => Range(res) = Range(CandsOf(arg.category))

----------------------------------------------------------------------------
(* _stable_pick on any candidate list *)

\* the candidate lists handed in: every prefix of a category's list, the
\* empty list included
CandLists(category) ==
    {SubSeq(CandsOf(category), 1, k) : k \in 0..Len(CandsOf(category))}

InitSelect ==
    /\ BuildIdle
    /\ fn = "none"
    /\ \E pair \in Pairs, asof \in AsofDates, category \in Categories :
          \E cands \in CandLists(category) :
              arg = [pair |-> pair, asof |-> asof, category |-> category, cands |-> cands]
    /\ res = <<>>

Call_stable_pick ==
    /\ fn = "none"
    /\ fn' = "_stable_pick"
    /\ res' = <<_stable_pick(arg.cands, arg.pair, arg.asof, arg.category)>>
    /\ UNCHANGED <<arg, buildvars>>

\* start_pick = _stable_pick(list(range(len(fillers))), category="pad")
Call_start_pick ==
    /\ fn = "none"
    /\ arg.category = "pad"
    /\ arg.cands = CandsOf("pad")
    /\ fn' = "_enforce_length_bounds.start_pick"
    /\ res' = <<_stable_pick(arg.cands, arg.pair, arg.asof, "pad")>>
    /\ UNCHANGED <<arg, buildvars>>

NextSelect ==
    \/ Call_stable_pick
    \/ Call_start_pick

SpecSelect == InitSelect /\ [][NextSelect]_vars

\* C12: for every call of the phrase selector, with any candidate list, the
\* returned value is an element of the candidate list supplied to that call.
C12_PickIsInSuppliedList ==
    fn # "none" => res[1] \in Range(arg.cands)

\* C12, amended: for every call with a candidate list that is not empty the
\* returned value is an element of that list; for the empty list the
\* selector returns the empty string.
C12_PickIsInNonEmptyList ==
    fn # "none" =>
        IF arg.cands = <<>> THEN res[1] = ""
        ELSE res[1] \in Range(arg.cands)

C12_Witness ==
    /\ fn = "_stable_pick"
    /\ Len(arg.cands) = 2
    /\ res[1] = arg.cands[2]

----------------------------------------------------------------------------
(* Calendar events: _normalize_row, scoring, reduce_events_for_body.       *)
(* A raw record carries a timestamp that either parses to a UTC hour and   *)
(* minute or does not (raw text bad_a, bad_b); a normalised time is        *)
(* <<hour, minute>> in JST, or UnknownTime for the text "--:--".           *)
(* Names: n_frb "FRB gichou no kouen" (a speech of a high-rank official),  *)
(* n_rate "seisaku kinri" (a release), n_speech "sousai no hatsugen" (a    *)
(* speech); in code-point order n_frb < n_rate < n_speech.                 *)

MaxEvents == 2

MAX_ITEMS == 14

JST_OFFSET == 9

UnknownTime == <<-1, -1>>

RawTimes ==
    {[ok |-> TRUE,  h |-> 0,  m |-> 0,  raw |-> ""],
     [ok |-> TRUE,  h |-> 12, m |-> 30, raw |-> ""],
     [ok |-> FALSE, h |-> 0,  m |-> 0,  raw |-> "bad_a"],
     [ok |-> FALSE, h |-> 0,  m |-> 0,  raw |-> "bad_b"]}

EventNames == {"n_frb", "n_rate", "n_speech"}

RawRecords ==
    [ts : RawTimes, name : EventNames, country : {"US", "UK"}, category : {"kinri", "other"}]

\* _normalize_row: JST "%H:%M" of the timestamp, "--:--" when it does not parse
_normalize_row(row) ==
    [jikoku   |-> IF row.ts.ok THEN <<(row.ts.h + JST_OFFSET) % 24, row.ts.m>> ELSE UnknownTime,
     shihyo   |-> row.name,
     chiiki   |-> row.country,
     category |-> row.category]

\* _parse_hm: (int(h), int(m)), and (99, 99) for a text that does not split
_parse_hm(t) == IF t = UnknownTime THEN <<99, 99>> ELSE t

region_w(r) ==
    CASE r \in {"JP", "US"} -> 3
      [] r \in {"EU", "UK", "AU", "NZ", "CN"} -> 2
      [] OTHER -> 1

\* cat_w: koyo (employment) 5, kinri (rates) and inflation 4, PMI and housing
\* 3, confidence 2, anything else 1
cat_w(c) ==
    CASE c = "koyo" -> 5
      [] c \in {"kinri", "inflation"} -> 4
      [] c \in {"PMI", "jutaku"} -> 3
      [] c = "shinraikan" -> 2
      [] OTHER -> 1

jikan_w(h) == IF (h >= 9 /\ h <= 12) \/ (h >= 21 /\ h <= 24) THEN 1 ELSE 0

\* the score columns added to the data frame before the reduction
ScoreRow(r) ==
    LET hm == _parse_hm(r.jikoku)
    IN  [jikoku |-> r.jikoku, shihyo |-> r.shihyo, chiiki |-> r.chiiki,
         category |-> r.category, H |-> hm[1], M |-> hm[2],
         score |-> region_w(r.chiiki) + cat_w(r.category) + jikan_w(hm[1])]

speech_mask(name) == name \in {"n_speech", "n_frb"}

high_rank(name) == name = "n_frb"

\* score+ : JP +2, US +1, a speech that is not of a high-rank official -1
ScorePlus(r) ==
    r.score + (IF r.chiiki = "JP" THEN 2 ELSE 0) + (IF r.chiiki = "US" THEN 1 ELSE 0)
            - (IF speech_mask(r.shihyo) /\ ~high_rank(r.shihyo) THEN 1 ELSE 0)

NameRank(name) ==
    CASE name = "n_frb" -> 1
      [] name = "n_rate" -> 2
      [] name = "n_speech" -> 3

\* a sorts strictly before b: by (score desc, H, M) for the first sort, by
\* (score+ desc, H, M, name) for the final sort
Before(a, b, final) ==
    LET sa == IF final THEN ScorePlus(a) ELSE a.score
        sb == IF final THEN ScorePlus(b) ELSE b.score
    IN  \/ sa > sb
        \/ sa = sb /\ a.H < b.H
        \/ sa = sb /\ a.H = b.H /\ a.M < b.M
        \/ final /\ sa = sb /\ a.H = b.H /\ a.M = b.M /\ NameRank(a.shihyo) < NameRank(b.shihyo)

\* x placed behind every element it does not sort before (a stable insert)
RECURSIVE InsertSorted(_, _, _)
InsertSorted(x, sorted, final) ==
    IF sorted = <<>> THEN <<x>>
    ELSE IF Before(x, Head(sorted), final) THEN <<x>> \o sorted
    ELSE <<Head(sorted)>> \o InsertSorted(x, Tail(sorted), final)

\* DataFrame.sort_values on several columns: a stable sort
RECURSIVE sort_values(_, _)
sort_values(rows, final) ==
    IF rows = <<>> THEN <<>>
    ELSE InsertSorted(Last(rows), sort_values(Front(rows), final), final)

KeyFull(r) == <<r.jikoku, r.chiiki, r.category, r.shihyo>>

KeyBase(r) == <<r.jikoku, r.chiiki, r.category>>

\* DataFrame.drop_duplicates(subset, keep="first")
RECURSIVE DropDupFull(_, _)
DropDupFull(rows, seen) ==
    IF rows = <<>> THEN <<>>
    ELSE IF KeyFull(Head(rows)) \in seen THEN DropDupFull(Tail(rows), seen)
    ELSE <<Head(rows)>> \o DropDupFull(Tail(rows), seen \cup {KeyFull(Head(rows))})

RECURSIVE DropDupBase(_, _)
DropDupBase(rows, seen) ==
    IF rows = <<>> THEN <<>>
    ELSE IF KeyBase(Head(rows)) \in seen THEN DropDupBase(Tail(rows), seen)
    ELSE <<Head(rows)>> \o DropDupBase(Tail(rows), seen \cup {KeyBase(Head(rows))})

Head_n(rows, n) == SubSeq(rows, 1, IF Len(rows) < n THEN Len(rows) ELSE n)

reduce_events_for_body(df_in, max_items) ==
    LET d1 == sort_values(df_in, FALSE)
        d2 == DropDupBase(DropDupFull(d1, {}), {})
    IN  Head_n(sort_values(d2, TRUE), max_items)

MapSeq(rows, Op(_)) == [i \in 1..Len(rows) |-> Op(rows[i])]

InitRank ==
    /\ BuildIdle
    /\ fn = "none"
    /\ arg \in SeqsUpTo(RawRecords, MaxEvents)
    /\ res = <<>>

\* rows = [_normalize_row(it) for it in items]
Call_normalize_row ==
    /\ fn = "none"
    /\ fn' = "_normalize_row"
    /\ res' = MapSeq(arg, _normalize_row)
    /\ UNCHANGED <<arg, buildvars>>

\* the score columns
Call_score ==
    /\ fn = "_normalize_row"
    /\ fn' = "score"
    /\ res' = MapSeq(res, ScoreRow)
    /\ UNCHANGED <<arg, buildvars>>

\* df_for_body = reduce_events_for_body(df, max_items=14)
Call_reduce_events_for_body ==
    /\ fn = "score"
    /\ fn' = "reduce_events_for_body"
    /\ res' = reduce_events_for_body(res, MAX_ITEMS)
    /\ UNCHANGED <<arg, buildvars>>

NextRank ==
    \/ Call_normalize_row
    \/ Call_score
    \/ Call_reduce_events_for_body

SpecRank == InitRank /\ [][NextRank]_vars

Ranked == fn = "reduce_events_for_body"

\* C13: after ranking and collapse the list has no two entries with the
\* same (time, region) pair.
C13_NoTwoWithSameTimeRegion ==
    Ranked =>
        \A i, j \in 1..Len(res) :
            (res[i].jikoku = res[j].jikoku /\ res[i].chiiki = res[j].chiiki) => i = j

\* the scored rows of the input that share the (time, region, category) of r
GroupOf(r) ==
    {x \in {ScoreRow(_normalize_row(arg[i])) : i \in 1..Len(arg)} : KeyBase(x) = KeyBase(r)}

\* C14: of the records that share one (time, region, category) the ranked
\* list keeps exactly one, and it is one with the highest ranking score
\* (weights plus regional boosts and speech penalty).
C14_GroupKeepsHighestScore ==
    Ranked =>
        \A i \in 1..Len(arg) :
            LET r    == ScoreRow(_normalize_row(arg[i]))
                kept == {k \in 1..Len(res) : KeyBase(res[k]) = KeyBase(r)}
            IN  /\ Cardinality(kept) = 1
                /\ \A k \in kept : \A x \in GroupOf(r) : ScorePlus(res[k]) >= ScorePlus(x)

\* C15: every input record whose time cannot be parsed is kept, marked as
\* unknown time: the ranked list holds an unknown-time entry with its name,
\* region and category.
C15_UnparsedTimeRecordsKept ==
    Ranked =>
        \A i \in 1..Len(arg) :
            ~arg[i].ts.ok =>
                \E k \in 1..Len(res) :
                    /\ res[k].jikoku = UnknownTime
                    /\ res[k].shihyo = arg[i].name
                    /\ res[k].chiiki = arg[i].country
                    /\ res[k].category = arg[i].category

----------------------------------------------------------------------------
(* Price series: 60-minute rows of the feed, the 4-hour and daily bars made *)
(* of them.  A row is [hr, o, h, l, c]; hr counts hours in UTC from a      *)
(* midnight; a price is a positive number, NaN a missing value.  Every row *)
(* of the feed is a proper bar where its values are present (high not      *)
(* below, low not above open and close).                                   *)

MaxBars == 2

NaN == 0

_candles == 120

NY_ROLLOVER_HOUR == 17

Prices == {1, 2}

StartHours == {19, 21}

\* New York is 4 (summer) or 5 (winter) hours behind UTC
NYOffsets == {4, 5}

IsNum(x) == x # NaN

ProperBar(b) ==
    /\ (IsNum(b.h) /\ IsNum(b.o)) => b.h >= b.o
    /\ (IsNum(b.h) /\ IsNum(b.c)) => b.h >= b.c
    /\ (IsNum(b.l) /\ IsNum(b.o)) => b.l <= b.o
    /\ (IsNum(b.l) /\ IsNum(b.c)) => b.l <= b.c
    /\ (IsNum(b.h) /\ IsNum(b.l)) => b.h >= b.l

RawBars ==
    {b \in [o : Prices \cup {NaN}, h : Prices \cup {NaN}, l : Prices, c : Prices \cup {NaN}] :
        ProperBar(b)}

\* the feed: rows at consecutive hours from a start hour
MakeSeries(start, bs) ==
    [i \in 1..Len(bs) |->
        [hr |-> start + i - 1, o |-> bs[i].o, h |-> bs[i].h, l |-> bs[i].l, c |-> bs[i].c]]

RawSeries == {MakeSeries(start, bs) : start \in StartHours, bs \in SeqsUpTo(RawBars, MaxBars)}

Max2(a, b) == IF a >= b THEN a ELSE b

Min2(a, b) == IF a <= b THEN a ELSE b

\* resample(...).first() / .last() / .max() / .min(): missing values skipped,
\* NaN when the group has no value
RECURSIVE FirstValid(_)
FirstValid(xs) ==
    IF xs = <<>> THEN NaN
    ELSE IF IsNum(Head(xs)) THEN Head(xs) ELSE FirstValid(Tail(xs))

RECURSIVE LastValid(_)
LastValid(xs) ==
    IF xs = <<>> THEN NaN
    ELSE IF IsNum(Last(xs)) THEN Last(xs) ELSE LastValid(Front(xs))

RECURSIVE MaxValid(_)
MaxValid(xs) ==
    IF xs = <<>> THEN NaN
    ELSE LET rest == MaxValid(Tail(xs))
         IN  IF ~IsNum(Head(xs)) THEN rest
             ELSE IF ~IsNum(rest) THEN Head(xs) ELSE Max2(Head(xs), rest)

RECURSIVE MinValid(_)
MinValid(xs) ==
    IF xs = <<>> THEN NaN
    ELSE LET rest == MinValid(Tail(xs))
         IN  IF ~IsNum(Head(xs)) THEN rest
             ELSE IF ~IsNum(rest) THEN Head(xs) ELSE Min2(Head(xs), rest)

\* 4-hour groups on UTC boundaries; days that end at 17:00 New York time
Bucket4h(hr) == hr \div 4

BucketNY(hr, off) == (hr - off - NY_ROLLOVER_HOUR) \div 24

\* label of a group: its first hour (UTC for 4 hours, New York time for days)
Label4h(k) == 4 * k

LabelNY(k, off) == 24 * k + NY_ROLLOVER_HOUR

RECURSIVE RowsOf(_, _, _, _)
RowsOf(rows, k, daily, off) ==
    IF rows = <<>> THEN <<>>
    ELSE LET b == IF daily THEN BucketNY(Head(rows).hr, off) ELSE Bucket4h(Head(rows).hr)
         IN  (IF b = k THEN <<Head(rows)>> ELSE <<>>) \o RowsOf(Tail(rows), k, daily, off)

\* one aggregated bar: open first, high max, low min, close last
AggBar(grp, label) ==
    [hr |-> label,
     o |-> FirstValid([i \in 1..Len(grp) |-> grp[i].o]),
     h |-> MaxValid([i \in 1..Len(grp) |-> grp[i].h]),
     l |-> MinValid([i \in 1..Len(grp) |-> grp[i].l]),
     c |-> LastValid([i \in 1..Len(grp) |-> grp[i].c])]

HasNaN(b) == ~IsNum(b.o) \/ ~IsNum(b.h) \/ ~IsNum(b.l) \/ ~IsNum(b.c)

\* resample + aggregate + dropna(how="any"), groups k..kmax in order
RECURSIVE Resample(_, _, _, _, _)
Resample(rows, k, kmax, daily, off) ==
    IF k > kmax THEN <<>>
    ELSE LET grp == RowsOf(rows, k, daily, off)
             bar == AggBar(grp, IF daily THEN LabelNY(k, off) ELSE Label4h(k))
         IN  (IF grp = <<>> \/ HasNaN(bar) THEN <<>> ELSE <<bar>>)
             \o Resample(rows, k + 1, kmax, daily, off)

ResampleAll(rows, daily, off) ==
    IF rows = <<>> THEN <<>>
    ELSE LET ks == {IF daily THEN BucketNY(rows[i].hr, off) ELSE Bucket4h(rows[i].hr) : i \in 1..Len(rows)}
             lo == CHOOSE k \in ks : \A j \in ks : k <= j
             hi == CHOOSE k \in ks : \A j \in ks : k >= j
         IN  Resample(rows, lo, hi, daily, off)

\* High/Low made to contain the body
CorrectBar(b) ==
    [hr |-> b.hr, o |-> b.o, c |-> b.c,
     h |-> Max2(b.h, Max2(b.o, b.c)),
     l |-> Min2(b.l, Min2(b.o, b.c))]

TailN(rows, n) == IF Len(rows) <= n THEN rows ELSE SubSeq(rows, Len(rows) - n + 1, Len(rows))

NoData == [none |-> TRUE, bars |-> <<>>]

Frame(bars) == [none |-> FALSE, bars |-> bars]

\* _dl_ohlc_v21(ticker, interval, need): None for an empty download
_dl_ohlc_v21(raw, interval, need, off) ==
    IF raw = <<>> THEN NoData
    ELSE IF interval \notin {"4h", "1d"} THEN NoData
    ELSE LET df == ResampleAll(raw, interval = "1d", off)
         IN  Frame(TailN(MapSeq(df, CorrectBar), Max2(need, _candles)))

\* _normalize_ohlcv of ta_block: rows without a Close dropped, sorted by time
RECURSIVE DropNaClose(_)
DropNaClose(rows) ==
    IF rows = <<>> THEN <<>>
    ELSE (IF IsNum(Head(rows).c) THEN <<Head(rows)>> ELSE <<>>) \o DropNaClose(Tail(rows))

_normalize_ohlcv(df) == DropNaClose(df)

\* df_h4 of ta_block: the normalised 1-hour rows resampled to 4 hours
ta_block_h4(raw) == Frame(ResampleAll(_normalize_ohlcv(raw), FALSE, 0))

\* df_d of ta_block: the daily download, normalised
ta_block_d(raw) == Frame(_normalize_ohlcv(raw))

InitBars ==
    /\ BuildIdle
    /\ fn = "none"
    /\ arg \in RawSeries
    /\ res = <<>>

Call_dl_ohlc_v21_4h ==
    /\ fn = "none"
    /\ fn' = "_dl_ohlc_v21.4h"
    /\ res' = _dl_ohlc_v21(arg, "4h", _candles, 0)
    /\ UNCHANGED <<arg, buildvars>>

Call_dl_ohlc_v21_1d ==
    /\ fn = "none"
    /\ fn' = "_dl_ohlc_v21.1d"
    /\ \E off \in NYOffsets : res' = _dl_ohlc_v21(arg, "1d", _candles, off)
    /\ UNCHANGED <<arg, buildvars>>

Call_ta_block_h4 ==
    /\ fn = "none"
    /\ fn' = "ta_block.df_h4"
    /\ res' = ta_block_h4(arg)
    /\ UNCHANGED <<arg, buildvars>>

Call_ta_block_d ==
    /\ fn = "none"
    /\ fn' = "ta_block.df_d"
    /\ res' = ta_block_d(arg)
    /\ UNCHANGED <<arg, buildvars>>

NextBars ==
    \/ Call_dl_ohlc_v21_4h
    \/ Call_dl_ohlc_v21_1d
    \/ Call_ta_block_h4
    \/ Call_ta_block_d

SpecBars == InitBars /\ [][NextBars]_vars

\* C16: every bar of every series the normalizer produces, in every code
\* path, has high >= max(open, close) and low <= min(open, close).
C16_BarsContainTheirBody ==
    fn # "none" =>
        \A i \in 1..Len(res.bars) :
            LET b == res.bars[i]
            IN  /\ IsNum(b.h) /\ IsNum(b.l) /\ IsNum(b.o) /\ IsNum(b.c)
                /\ b.h >= Max2(b.o, b.c)
                /\ b.l <= Min2(b.o, b.c)

----------------------------------------------------------------------------
(* Indicators on a series of closes.  A value is an exact fraction         *)
(* [num, den]; den = 0 stands for NaN (an undefined value).                *)

MaxSeries == 3

MaxWindow == 3

SMA20_WINDOW == 20

RSI_N == 14

Closes == {1, 2, 3}

Undefined == [num |-> 0, den |-> 0]

IsDefined(v) == v.den # 0

RECURSIVE SumSeq(_)
SumSeq(xs) == IF xs = <<>> THEN 0 ELSE Head(xs) + SumSeq(Tail(xs))

\* Series.rolling(n, min_periods).mean(): at position i the mean of the last
\* n values up to i, NaN while fewer than min_periods values are there
rolling_mean(s, n, min_periods) ==
    [i \in 1..Len(s) |->
        LET from == Max2(1, i - n + 1)
            cnt  == i - from + 1
        IN  IF cnt < min_periods THEN Undefined
            ELSE [num |-> SumSeq(SubSeq(s, from, i)), den |-> cnt]]

\* _sma_v21(s, n) = s.rolling(n, min_periods=1).mean()
_sma_v21(s, n) == rolling_mean(s, n, 1)

\* _sma(arr, n) = pd.Series(arr).rolling(n).mean(): min_periods is n
_sma(arr, n) == rolling_mean(arr, n, n)

\* add_ta: sma20 = c.rolling(20, min_periods=20).mean()
add_ta_SMA20(c) == rolling_mean(c, SMA20_WINDOW, SMA20_WINDOW)

RECURSIVE Pow(_, _)
Pow(b, e) == IF e = 0 THEN 1 ELSE b * Pow(b, e - 1)

\* Series.ewm(alpha=1/n, adjust=False).mean() of the values xs: entry k is
\* the numerator of y_k over n^(k-1), y_1 = x_1, y_k = ((n-1) y_(k-1) + x_k) / n
RECURSIVE EwmNum(_, _)
EwmNum(xs, n) ==
    IF Len(xs) <= 1 THEN xs
    ELSE LET prev == EwmNum(Front(xs), n)
         IN  Append(prev, (n - 1) * Last(prev) + Last(xs) * Pow(n, Len(xs) - 2))

\* close.diff() from the second value on (the first difference is NaN)
Diffs(close) == [i \in 1..(Len(close) - 1) |-> close[i + 1] - close[i]]

\* _rsi_v21 / _rsi_s: up and down moves smoothed, rs = ema_up / ema_dn with a
\* zero ema_dn replaced by NaN, 100 - 100 / (1 + rs) clipped to [0, 100]
_rsi_v21(close, n) ==
    LET d      == IF close = <<>> THEN <<>> ELSE Diffs(close)
        up     == [i \in 1..Len(d) |-> Max2(d[i], 0)]
        dn     == [i \in 1..Len(d) |-> Max2(0 - d[i], 0)]
        ema_up == EwmNum(up, n)
        ema_dn == EwmNum(dn, n)
    IN  [i \in 1..Len(close) |->
            IF i = 1 THEN Undefined
            ELSE IF ema_dn[i - 1] = 0 THEN Undefined
            ELSE [num |-> 100 * ema_up[i - 1], den |-> ema_up[i - 1] + ema_dn[i - 1]]]

InitInd ==
    /\ BuildIdle
    /\ fn = "none"
    /\ arg \in [s : SeqsUpTo(Closes, MaxSeries), n : 1..MaxWindow]
    /\ res = <<>>

Call_sma_v21 ==
    /\ fn = "none"
    /\ fn' = "_sma_v21"
    /\ res' = _sma_v21(arg.s, arg.n)
    /\ UNCHANGED <<arg, buildvars>>

Call_sma ==
    /\ fn = "none"
    /\ fn' = "_sma"
    /\ res' = _sma(arg.s, arg.n)
    /\ UNCHANGED <<arg, buildvars>>

Call_add_ta_SMA20 ==
    /\ fn = "none"
    /\ fn' = "add_ta.SMA20"
    /\ res' = add_ta_SMA20(arg.s)
    /\ UNCHANGED <<arg, buildvars>>

\* v["RSI14"] = _rsi_v21(v["Close"], 14)
Call_rsi_v21 ==
    /\ fn = "none"
    /\ fn' = "_rsi_v21"
    /\ res' = _rsi_v21(arg.s, RSI_N)
    /\ UNCHANGED <<arg, buildvars>>

NextInd ==
    \/ Call_sma_v21
    \/ Call_sma
    \/ Call_add_ta_SMA20
    \/ Call_rsi_v21

SpecInd == InitInd /\ [][NextInd]_vars

IsSMA == fn \in {"_sma_v21", "_sma", "add_ta.SMA20"}

\* C17: for every series S and window n >= 1 the SMA(n) output has |S|
\* entries and none of them is undefined, warm-up positions included.
C17_SMAFullLengthAndDefined ==
    IsSMA => /\ Len(res) = Len(arg.s)
             /\ \A i \in 1..Len(res) : IsDefined(res[i])

\* C18: for any finite series every RSI(14) output value is a defined
\* number in the closed interval [0, 100].
C18_RSIDefinedWithin0And100 ==
    fn = "_rsi_v21" =>
        \A i \in 1..Len(res) :
            /\ IsDefined(res[i])
            /\ res[i].den > 0
            /\ 0 <= res[i].num
            /\ res[i].num <= 100 * res[i].den

----------------------------------------------------------------------------
(* Regime classification of one row of live metrics (_classify_regime).    *)
(* Metrics and thresholds are fractions; a comparison with NaN is false.   *)

Num(k) == [num |-> k, den |-> 1]

Frac(a, b) == [num |-> a, den |-> b]

Geq(a, b) == IsDefined(a) /\ IsDefined(b) /\ a.num * b.den >= b.num * a.den

Leq(a, b) == IsDefined(a) /\ IsDefined(b) /\ a.num * b.den <= b.num * a.den

Gt(a, b) == IsDefined(a) /\ IsDefined(b) /\ a.num * b.den > b.num * a.den

Lt(a, b) == IsDefined(a) /\ IsDefined(b) /\ a.num * b.den < b.num * a.den

Neg(a) == [num |-> 0 - a.num, den |-> a.den]

AbsF(a) == [num |-> IF a.num < 0 THEN 0 - a.num ELSE a.num, den |-> a.den]

\* th.get(key, default)
Get(th, key, default) == IF key \in DOMAIN th THEN th[key] ELSE default

ADX_TREND(th) == Get(th, "adx_trend", Num(22))

BW_RANGE_MAX(th) == Get(th, "bb_range_max", Frac(12, 1000))

SLOPE_EMA200_MIN(th) == Get(th, "slope_ema200_min", Num(0))

SLOPE_SMA20_ABS_MAX(th) == Get(th, "slope_sma20_abs_max", Frac(6, 10000))

is_up(m, th) ==
    /\ Geq(m.adx, ADX_TREND(th))
    /\ Geq(m.close, m.ema200)
    /\ Gt(m.ema200_slope, SLOPE_EMA200_MIN(th))

is_down(m, th) ==
    /\ Geq(m.adx, ADX_TREND(th))
    /\ Leq(m.close, m.ema200)
    /\ Lt(m.ema200_slope, Neg(SLOPE_EMA200_MIN(th)))

\* the same classifier with the ADX compared strictly
_classify_regime_strict_adx(m, th) ==
    IF /\ Gt(m.adx, ADX_TREND(th))
       /\ Geq(m.close, m.ema200)
       /\ Gt(m.ema200_slope, SLOPE_EMA200_MIN(th)) THEN "trend_up"
    ELSE IF /\ Gt(m.adx, ADX_TREND(th))
            /\ Leq(m.close, m.ema200)
            /\ Lt(m.ema200_slope, Neg(SLOPE_EMA200_MIN(th))) THEN "trend_down"
    ELSE "range"

_classify_regime(m, th) ==
    IF is_up(m, th) THEN "trend_up"
    ELSE IF is_down(m, th) THEN "trend_down"
    ELSE IF /\ Leq(m.bb_width_pct, BW_RANGE_MAX(th))
            /\ Leq(AbsF(m.sma20_slope), SLOPE_SMA20_ABS_MAX(th)) THEN "range"
    ELSE "range"

\* live.thresholds of the configuration: each key may be absent
ThresholdKeys == {"adx_trend", "slope_ema200_min"}

ThresholdChoices(k) ==
    IF k = "adx_trend" THEN {Num(25)} ELSE {Frac(-1, 1000), Frac(1, 2000)}

Thresholds ==
    UNION { { th \in [K -> {Num(25), Frac(-1, 1000), Frac(1, 2000)}] :
                \A k \in K : th[k] \in ThresholdChoices(k) } :
            K \in SUBSET ThresholdKeys }

MetricRows ==
    [adx          : {Undefined, Num(21), Num(22), Num(25)},
     close        : {Num(1), Num(2)},
     ema200       : {Num(1), Num(2)},
     ema200_slope : {Frac(-1, 1000), Num(0), Frac(1, 1000)},
     sma20_slope  : {Num(0), Frac(1, 1000)},
     bb_width_pct : {Num(0), Frac(2, 100)}]

InitRegime ==
    /\ BuildIdle
    /\ fn = "none"
    /\ arg \in [m : MetricRows, th : Thresholds]
    /\ res = "none"

Call_classify_regime ==
    /\ fn = "none"
    /\ fn' = "_classify_regime"
    /\ res' = _classify_regime(arg.m, arg.th)
    /\ UNCHANGED <<arg, buildvars>>

NextRegime == Call_classify_regime

SpecRegime == InitRegime /\ [][NextRegime]_vars

TrendUpCond ==
    /\ Geq(arg.m.adx, ADX_TREND(arg.th))
    /\ Geq(arg.m.close, arg.m.ema200)
    /\ Gt(arg.m.ema200_slope, SLOPE_EMA200_MIN(arg.th))

TrendDownCond ==
    /\ Geq(arg.m.adx, ADX_TREND(arg.th))
    /\ Leq(arg.m.close, arg.m.ema200)
    /\ Lt(arg.m.ema200_slope, Neg(SLOPE_EMA200_MIN(arg.th)))

----------------------------------------------------------------------------
(* Live 60-minute metrics (_atr_adx, _fetch_1h_metrics) and the regime     *)
(* derived from them (_para2_from_live).  A frame is a sequence of bars    *)
(* [High, Low, Close]; a division by zero gives a value that is not a      *)
(* finite number, which Undefined stands for.                              *)

MaxLiveBars == 3

ADX_N == 14

EMA200_SPAN == 200

EMA_SLOPE_BARS == 20

SMA_SLOPE_BARS == 10

LivePrices == {1, 2}

LiveBars ==
    {b \in [High : LivePrices, Low : LivePrices, Close : LivePrices] :
        b.Low <= b.Close /\ b.Close <= b.High}

AbsInt(x) == IF x < 0 THEN 0 - x ELSE x

RECURSIVE GCD(_, _)
GCD(a, b) == IF b = 0 THEN a ELSE GCD(b, a % b)

Norm(f) ==
    IF f.den = 0 THEN Undefined
    ELSE LET g == GCD(AbsInt(f.num), f.den)
         IN  [num |-> f.num \div g, den |-> f.den \div g]

FAdd(a, b) ==
    IF ~IsDefined(a) \/ ~IsDefined(b) THEN Undefined
    ELSE Norm(Frac(a.num * b.den + b.num * a.den, a.den * b.den))

FSub(a, b) == FAdd(a, Neg(b))

FMulInt(k, a) ==
    IF ~IsDefined(a) THEN Undefined ELSE Norm(Frac(k * a.num, a.den))

FDiv(a, b) ==
    IF ~IsDefined(a) \/ ~IsDefined(b) \/ b.num = 0 THEN Undefined
    ELSE IF b.num > 0 THEN Norm(Frac(a.num * b.den, a.den * b.num))
    ELSE Norm(Frac(0 - a.num * b.den, a.den * (0 - b.num)))

\* Series.replace(0, np.nan)
ReplaceZero(a) == IF IsDefined(a) /\ a.num = 0 THEN Undefined ELSE a

\* bool(x) of a float: False only for 0.0 (NaN is truthy)
Truthy(a) == ~IsDefined(a) \/ a.num # 0

\* ewm(alpha = a/b, adjust=False).mean() of defined values: entry k is the
\* numerator of y_k over b^(k-1), y_1 = x_1, y_k = ((b-a) y_(k-1) + a x_k) / b
RECURSIVE EwmAlpha(_, _, _)
EwmAlpha(xs, a, b) ==
    IF Len(xs) <= 1 THEN xs
    ELSE LET prev == EwmAlpha(Front(xs), a, b)
         IN  Append(prev, (b - a) * Last(prev) + a * Last(xs) * Pow(b, Len(xs) - 2))

\* _ema(arr, span) = ewm(span=span, adjust=False).mean(): alpha = 2 / (span + 1)
_ema(arr, span) ==
    LET e == EwmAlpha(arr, 2, span + 1)
    IN  [i \in 1..Len(arr) |-> Norm(Frac(e[i], Pow(span + 1, i - 1)))]

\* ewm(alpha=1/n, adjust=False).mean() of a series with NaN entries: NaN until
\* the first value; a NaN entry repeats the last mean and ages its weight by
\* (n-1)/n; y is the mean, k the number of agings since the last value
RECURSIVE EwmNaN(_, _)
EwmNaN(xs, n) ==
    IF xs = <<>> THEN <<>>
    ELSE IF Len(xs) = 1 THEN <<[y |-> xs[1], k |-> 0]>>
    ELSE LET prev == EwmNaN(Front(xs), n)
             p    == Last(prev)
             x    == Last(xs)
             k1   == p.k + 1
             old  == Pow(n - 1, k1)
             new  == Pow(n, k1 - 1)
         IN  Append(prev,
                IF IsDefined(p.y)
                THEN IF IsDefined(x)
                     THEN [y |-> FDiv(FAdd(FMulInt(old, p.y), FMulInt(new, x)),
                                      Num(old + new)),
                           k |-> 0]
                     ELSE [y |-> p.y, k |-> k1]
                ELSE [y |-> x, k |-> 0])

_atr_adx(df, n) ==
    LET L == Len(df)
        tr == [i \in 1..L |->
                 IF i = 1 THEN AbsInt(df[i].High - df[i].Low)
                 ELSE Max2(AbsInt(df[i].High - df[i].Low),
                           Max2(AbsInt(df[i].High - df[i - 1].Close),
                                AbsInt(df[i].Low - df[i - 1].Close)))]
        up(i)   == df[i].High - df[i - 1].High
        down(i) == df[i - 1].Low - df[i].Low
        plus_dm  == [i \in 1..L |->
                       IF i > 1 /\ up(i) > down(i) /\ up(i) > 0 THEN up(i) ELSE 0]
        minus_dm == [i \in 1..L |->
                       IF i > 1 /\ down(i) > up(i) /\ down(i) > 0 THEN down(i) ELSE 0]
        tr_ewm    == EwmAlpha(tr, 1, n)
        plus_ewm  == EwmAlpha(plus_dm, 1, n)
        minus_ewm == EwmAlpha(minus_dm, 1, n)
        atr == [i \in 1..L |-> Norm(Frac(tr_ewm[i], Pow(n, i - 1)))]
        plus_di  == [i \in 1..L |->
                       FMulInt(100, FDiv(Norm(Frac(plus_ewm[i], Pow(n, i - 1))), atr[i]))]
        minus_di == [i \in 1..L |->
                       FMulInt(100, FDiv(Norm(Frac(minus_ewm[i], Pow(n, i - 1))), atr[i]))]
        dx == [i \in 1..L |->
                 FMulInt(100, FDiv(AbsF(FSub(plus_di[i], minus_di[i])),
                                   ReplaceZero(FAdd(plus_di[i], minus_di[i]))))]
        adx_ewm == EwmNaN(dx, n)
    IN  [atr |-> atr, adx |-> [i \in 1..L |-> adx_ewm[i].y]]

\* _bb_width_pct(close, n): rolling(n) mean and std are NaN at the first n-1
\* positions; only those positions are modelled
_bb_width_pct(close, n) ==
    [i \in 1..Min2(Len(close), n - 1) |-> Undefined]

NoMetrics == [ok |-> FALSE]

\* prices are at least 1, so max(1e-9, x) is x in the two slopes
_fetch_1h_metrics(df) ==
    IF df = <<>> THEN NoMetrics
    ELSE
    LET L      == Len(df)
        c      == [i \in 1..L |-> df[i].Close]
        ema200 == _ema(c, EMA200_SPAN)
        sma20  == _sma(c, SMA20_WINDOW)
        bbp    == _bb_width_pct(c, SMA20_WINDOW)
        last_close  == Num(c[L])
        last_ema200 == IF IsDefined(ema200[L]) THEN ema200[L] ELSE last_close
        last_sma20  == IF IsDefined(sma20[L]) THEN sma20[L] ELSE last_close
        last_bbp    == IF IsDefined(bbp[L]) THEN bbp[L] ELSE Num(0)
        e20 == L - EMA_SLOPE_BARS + 1
        s10 == L - SMA_SLOPE_BARS + 1
        ema200_slope ==
            IF L >= EMA_SLOPE_BARS /\ IsDefined(ema200[e20])
            THEN FDiv(FSub(ema200[L], ema200[e20]), ema200[e20]) ELSE Num(0)
        sma20_slope ==
            IF L >= SMA_SLOPE_BARS /\ IsDefined(sma20[s10])
            THEN FDiv(FSub(sma20[L], sma20[s10]), sma20[s10]) ELSE Num(0)
        aa == _atr_adx(df, ADX_N)
        last_atr == IF Truthy(aa.atr[L]) /\ Truthy(last_close)
                    THEN FDiv(aa.atr[L], last_close) ELSE Num(0)
        last_adx == IF Truthy(aa.adx[L]) THEN aa.adx[L] ELSE Num(0)
    IN  [ok           |-> TRUE,
         close        |-> last_close,
         ema200       |-> last_ema200,
         ema200_slope |-> ema200_slope,
         sma20        |-> last_sma20,
         sma20_slope  |-> sma20_slope,
         bb_width_pct |-> last_bbp,
         adx          |-> last_adx,
         atr_pct      |-> last_atr]

\* _para2_from_live: the metrics of the frame and the regime of the seed
_para2_from_live(df, th) ==
    LET m == _fetch_1h_metrics(df)
    IN  IF ~m.ok THEN [m |-> m, regime |-> "no_data"]
        ELSE [m |-> m, regime |-> _classify_regime(m, th)]

InitLive ==
    /\ BuildIdle
    /\ fn = "none"
    /\ arg \in [df : SeqsUpTo(LiveBars, MaxLiveBars), th : Thresholds]
    /\ res = <<>>

Call_para2_from_live ==
    /\ fn = "none"
    /\ fn' = "_para2_from_live"
    /\ res' = _para2_from_live(arg.df, arg.th)
    /\ UNCHANGED <<arg, buildvars>>

NextLive == Call_para2_from_live

SpecLive == InitLive /\ [][NextLive]_vars

\* every price of the frame is the same
FlatFrame(df) ==
    /\ df # <<>>
    /\ \A i \in 1..Len(df) :
          /\ df[i].High = df[1].Close
          /\ df[i].Low = df[1].Close
          /\ df[i].Close = df[1].Close

\* C20: for a 60-minute frame in which every price is identical the computed
\* ADX is a defined number below the trend threshold and the classifier
\* returns range.
C20_FlatFrameADXDefinedAndRange ==
    (fn = "_para2_from_live" /\ FlatFrame(arg.df)) =>
        /\ res.m.ok
        /\ IsDefined(res.m.adx)
        /\ Lt(res.m.adx, ADX_TREND(arg.th))
        /\ res.regime = "range"

----------------------------------------------------------------------------
(* Length after padding *)

\* C27: after the padding step paragraph 2 has at least the configured
\* minimum number of characters (180), whatever its length before padding.
C27_PaddedReachesMinimum ==
    fn \in {"_pad_para2_to_min", "_extend_para2_if_short", "_enforce_length_bounds"} =>
        TextLen(res) >= P2_MIN_CHARS

----------------------------------------------------------------------------
(* Padding applied again and again to the same paragraph *)

MaxPadSteps == 2

\* fillers of _pad_to_min_length, in order
PadFillers == <<"pf_hanno", "c_chushi", "c_miki", "c_keikai", "pf_sma">>

\* f.rstrip(maru) in base: the sentence is in the text, or it is the part of
\* a longer sentence of the text
TextContains(base, f) ==
    \/ f \in Range(base)
    \/ f = "pf_hanno" /\ "pf_sma" \in Range(base)

RECURSIVE PadFillLoop(_, _, _)
PadFillLoop(base, fillers, min_len) ==
    IF fillers = <<>> \/ TextLen(base) >= min_len THEN base
    ELSE LET f == Head(fillers)
         IN  PadFillLoop(IF TextContains(base, f) THEN base
                         ELSE Strip((IF EndsWithMaru(base) THEN base
                                     ELSE base \o <<MARU>>) \o <<f>>),
                         Tail(fillers), min_len)

_pad_to_min_length(text, min_len) == PadFillLoop(Strip(text), PadFillers, min_len)

RepadInputs ==
    {t \in SeqsUpTo({"s40", "s90", "c_keikai", SP}, MaxPadToks) : Strip(t) = t}

InitRepad ==
    /\ BuildIdle
    /\ fn = "none"
    /\ arg \in RepadInputs
    /\ res = [text |-> arg, steps |-> 0]

Repad_pad_para2 ==
    /\ res.steps < MaxPadSteps
    /\ fn' = "pad_para2"
    /\ res' = [text |-> pad_para2_app(res.text, P2_MIN_CHARS), steps |-> res.steps + 1]
    /\ UNCHANGED <<arg, buildvars>>

Repad_extend_para2_if_short ==
    /\ res.steps < MaxPadSteps
    /\ fn' = "_extend_para2_if_short"
    /\ \E pool \in Pools :
          res' = [text  |-> _extend_para2_if_short(res.text, pool, P2_MIN_CHARS,
                                                   _allowed_closers),
                  steps |-> res.steps + 1]
    /\ UNCHANGED <<arg, buildvars>>

Repad_pad_to_min_length ==
    /\ res.steps < MaxPadSteps
    /\ fn' = "_pad_to_min_length"
    /\ res' = [text |-> _pad_to_min_length(res.text, P2_MIN_CHARS), steps |-> res.steps + 1]
    /\ UNCHANGED <<arg, buildvars>>

NextRepad ==
    \/ Repad_pad_para2
    \/ Repad_extend_para2_if_short
    \/ Repad_pad_to_min_length

SpecRepad == InitRepad /\ [][NextRepad]_vars

Occurrences(t, f) == Cardinality({i \in 1..Len(t) : t[i] = f})

\* C28: padding never adds a fragment that is already in the paragraph:
\* after any number of padding steps every filler fragment occurs at most
\* once in the paragraph.
C28_FillerAtMostOnce ==
    \A f \in FillerSents : Occurrences(res.text, f) <= 1

----------------------------------------------------------------------------
(* The polish functions of paragraph 2 applied to one paragraph each *)

MaxPolishSents == 5

TIDY_MAX_SENTS == 4

\* body[:max_sents]
FirstN(t, n) == SubSeq(t, 1, Min2(Len(t), n))

\* _tidy_para2(text, max_sents): sentences split on the full stop and
\* stripped, repeated sentences dropped, the sentences holding a stem of
\* _CLOSE_STEMS taken out and the last of them put back at the end, then the
\* list cut to max_sents sentences.
_tidy_para2(text, max_sents) ==
    LET t       == Strip(text)
        ordered == UniqFrom(SelectTok(t, Sentences), {})
        closer_buf == SelectTok(ordered, _CLOSE_STEMS)
        body0   == SelectTok(ordered, Sentences \ _CLOSE_STEMS)
        body    == IF closer_buf # <<>> THEN Append(body0, Last(closer_buf)) ELSE body0
        out     == FirstN(body, max_sents)
    IN  IF t = <<>> THEN t
        ELSE IF out = <<>> THEN <<MARU>>
        ELSE out

\* step 1 of _avoid_repeated_openers: a sentence equal to the one before it
\* is dropped
RECURSIVE DropAdjacent(_)
DropAdjacent(t) ==
    IF Len(t) < 2 THEN t
    ELSE LET front == DropAdjacent(Front(t))
         IN  IF Last(front) = Last(t) THEN front ELSE Append(front, Last(t))

\* _avoid_repeated_openers on a text of _tidy_para2 (no spaces); of the
\* sentences of the model only addon opens with the rotated opener, and it
\* occurs once after _tidy_para2, so step 2 changes nothing
_avoid_repeated_openers(text) ==
    LET sents == SelectTok(text, Sentences)
    IN  IF sents = <<>> THEN <<MARU>> ELSE DropAdjacent(sents)

_finalize_para2_for_build(text) ==
    LET tmp1 == _tidy_para2(Strip(text), TIDY_MAX_SENTS)
        tmp2 == _avoid_repeated_openers(tmp1)
        tmp3 == _enforce_length_bounds(tmp2, ENFORCE_MIN_LEN, ENFORCE_MAX_LEN)
    IN  _tidy_para2(tmp3, TIDY_MAX_SENTS)

PolishInputs ==
    SeqsUpTo({"s40", "s90", "s130", "sBan", "c_keikai", "c_chushi"}, MaxPolishSents)

InitPolish ==
    /\ BuildIdle
    /\ fn = "none"
    /\ arg \in [text : PolishInputs, tail : {NoTail, "keikai_ka"}]
    /\ res = <<>>

Call_final_polish_and_guard ==
    /\ fn = "none"
    /\ fn' = "_final_polish_and_guard"
    /\ \E para \in {"p1", "p2"} :
          res' = _final_polish_and_guard(arg.text, para, arg.tail)
    /\ UNCHANGED <<arg, buildvars>>

Call_tidy_para2 ==
    /\ fn = "none"
    /\ fn' = "_tidy_para2"
    /\ res' = _tidy_para2(arg.text, TIDY_MAX_SENTS)
    /\ UNCHANGED <<arg, buildvars>>

Call_finalize_para2_for_build ==
    /\ fn = "none"
    /\ fn' = "_finalize_para2_for_build"
    /\ res' = _finalize_para2_for_build(arg.text)
    /\ UNCHANGED <<arg, buildvars>>

NextPolish ==
    \/ Call_final_polish_and_guard
    \/ Call_tidy_para2
    \/ Call_finalize_para2_for_build

SpecPolish == InitPolish /\ [][NextPolish]_vars

\* the sentences a polish function treats as closing sentences
ClosingSentences == PolishClosers \cup _CLOSE_STEMS

ClosersIn(t) == SelectTok(t, ClosingSentences)

\* C26: after the polish step a paragraph that contained one or more closing
\* sentences contains exactly one closing sentence, and that sentence is the
\* last sentence of the paragraph.
C26_ExactlyOneCloserAtEnd ==
    (fn # "none" /\ ClosersIn(arg.text) # <<>>) =>
        /\ Len(ClosersIn(res)) = 1
        /\ res # <<>>
        /\ Last(res) \in ClosingSentences

----------------------------------------------------------------------------
(* Feeds with too few valid rows *)

\* the rows of the feed in which every price is present
ValidRows(raw) == {i \in 1..Len(raw) : ~HasNaN(raw[i])}

\* the no-data result: None, or a frame without rows
IsNoData(r) == r.none \/ r.bars = <<>>

\* C29: if the raw feed is empty, unparseable or yields fewer than 2 valid
\* rows, the normalizer returns the no-data result and never a series of bars.
C29_FewValidRowsGiveNoData ==
    (fn # "none" /\ Cardinality(ValidRows(arg)) < 2) => IsNoData(res)

----------------------------------------------------------------------------
(* 4-hour aggregation of feeds long enough to fill a group *)

MaxAggRows == 5

GROUP_HOURS == 4

AggStartHours == {0, 2, 3}

AggBars ==
    {[o |-> 1, h |-> 1, l |-> 1, c |-> 1],
     [o |-> 1, h |-> 2, l |-> 1, c |-> 2],
     [o |-> 2, h |-> 2, l |-> 1, c |-> 1]}

AggSeries ==
    {MakeSeries(start, bs) : start \in AggStartHours, bs \in SeqsUpTo(AggBars, MaxAggRows)}

InitAgg ==
    /\ BuildIdle
    /\ fn = "none"
    /\ arg \in AggSeries
    /\ res = <<>>

Agg_dl_ohlc_v21_4h ==
    /\ fn = "none"
    /\ fn' = "_dl_ohlc_v21.4h"
    /\ res' = _dl_ohlc_v21(arg, "4h", _candles, 0)
    /\ UNCHANGED <<arg, buildvars>>

Agg_ta_block_h4 ==
    /\ fn = "none"
    /\ fn' = "ta_block.df_h4"
    /\ res' = ta_block_h4(arg)
    /\ UNCHANGED <<arg, buildvars>>

NextAgg ==
    \/ Agg_dl_ohlc_v21_4h
    \/ Agg_ta_block_h4

SpecAgg == InitAgg /\ [][NextAgg]_vars

\* the rows of the feed in the 4-hour UTC window that starts at hour label
GroupAt(label) ==
    {i \in 1..Len(arg) : arg[i].hr >= label /\ arg[i].hr < label + GROUP_HOURS}

\* bar b is open = first, high = max, low = min, close = last of its window
IsAggOfGroup(b) ==
    LET g == GroupAt(b.hr)
    IN  /\ b.hr % GROUP_HOURS = 0
        /\ g # {}
        /\ \A i \in g :
              /\ (\A j \in g : i <= j) => b.o = arg[i].o
              /\ (\A j \in g : i >= j) => b.c = arg[i].c
              /\ b.h >= arg[i].h
              /\ b.l <= arg[i].l
        /\ \E i \in g : b.h = arg[i].h
        /\ \E i \in g : b.l = arg[i].l

\* the window of the last row of the feed
TrailingLabel == GROUP_HOURS * (Last(arg).hr \div GROUP_HOURS)

C30_BarsAreGroupAggregates ==
    fn # "none" => \A k \in 1..Len(res.bars) : IsAggOfGroup(res.bars[k])

\* C30: 4-hour aggregation groups the base bars on fixed 4-hour UTC
\* boundaries with open = first, high = max, low = min, close = last of the
\* group, and a trailing group that does not yet contain all of its base
\* bars is absent from the output series.
C30_AggregatesWithoutIncompleteTrailing ==
    (fn # "none" /\ arg # <<>>) =>
        /\ \A k \in 1..Len(res.bars) : IsAggOfGroup(res.bars[k])
        /\ Cardinality(GroupAt(TrailingLabel)) < GROUP_HOURS =>
              \A k \in 1..Len(res.bars) : res.bars[k].hr # TrailingLabel

----------------------------------------------------------------------------
(* Names of calendar events (_ja_indicator_name).  A name is a sequence of *)
(* tokens: region prefixes with their separator (p_US, p_UK: the prefixes  *)
(* of US and UK; p_CA: the code CA used as a prefix) and then the name     *)
(* proper (n_frb, n_rate; ja_rate is the alias of n_rate).                 *)

MaxPrefixes == 2

\* reg_map / _region_symbol: the prefixes of the known region codes
reg_map(code) ==
    CASE code = "US" -> "p_US"
      [] code = "UK" -> "p_UK"
      [] OTHER       -> ""

CanonicalPrefixes == {"p_US", "p_UK"}

\* _region_symbol(code) = m.get(c, c): an unknown code is its own prefix
_region_symbol(code) ==
    IF reg_map(code) # "" THEN reg_map(code)
    ELSE IF code = "CA" THEN "p_CA" ELSE ""

\* the alias table (indicator_alias_ja.yaml)
IndAlias(tok) == IF tok = "n_rate" THEN "ja_rate" ELSE tok

\* while re.match(prefix_pat, t): t = re.sub(prefix_pat, '', t)
RECURSIVE StripPrefixes(_)
StripPrefixes(t) ==
    IF t # <<>> /\ Head(t) \in CanonicalPrefixes THEN StripPrefixes(Tail(t)) ELSE t

\* the first definition of _ja_indicator_name (replaced by the second one
\* when the script has run past it)
_ja_indicator_name_first(raw, region_code) ==
    LET name == [i \in 1..Len(raw) |-> IndAlias(raw[i])]
        head == _region_symbol(region_code)
    IN  IF head # "" /\ name # <<>> /\ Head(name) = head THEN name
        ELSE IF head # "" THEN <<head>> \o name
        ELSE name

\* the second definition of _ja_indicator_name, the one the event table uses
_ja_indicator_name(text, region) ==
    LET t      == StripPrefixes(text)
        name   == IF Len(t) = 1 THEN <<IndAlias(t[1])>> ELSE t
        jp_reg == reg_map(region)
    IN  IF jp_reg # "" THEN <<jp_reg>> \o name ELSE name

RawNames ==
    {pre \o base : pre \in SeqsUpTo(CanonicalPrefixes, MaxPrefixes),
                   base \in {<<>>, <<"n_frb">>, <<"n_rate">>}}

RegionCodes == {"US", "UK", "CA", ""}

InitName ==
    /\ BuildIdle
    /\ fn = "none"
    /\ arg \in [raw : RawNames, region : RegionCodes]
    /\ res = <<>>

Call_ja_indicator_name ==
    /\ fn = "none"
    /\ fn' = "_ja_indicator_name"
    /\ res' = _ja_indicator_name(arg.raw, arg.region)
    /\ UNCHANGED <<arg, buildvars>>

Call_ja_indicator_name_first ==
    /\ fn = "none"
    /\ fn' = "_ja_indicator_name.first"
    /\ res' = _ja_indicator_name_first(arg.raw, arg.region)
    /\ UNCHANGED <<arg, buildvars>>

NextName ==
    \/ Call_ja_indicator_name
    \/ Call_ja_indicator_name_first

SpecName == InitName /\ [][NextName]_vars

\* number of canonical region prefixes at the front of a name
LeadingPrefixes(t) == Len(t) - Len(StripPrefixes(t))

\* C24: for every raw event name and every region code the canonicalized
\* name carries exactly one canonical region prefix: never two (also when the
\* raw name already starts with prefixes) and never none.
C24_ExactlyOneRegionPrefix ==
    fn # "none" => LeadingPrefixes(res) = 1

----------------------------------------------------------------------------
(* Paragraph 2 of a run in which the market-data provider gives nothing:   *)
(* seed, text area, final padding and closer, layout check (src/app.py).   *)

LivePairs ==
    {"usdjpy", "eurusd", "eurjpy", "gbpusd", "gbpjpy",
     "audusd", "nzdusd", "xauusd", "btcusd", "audjpy"}

\* PAIR_TEMPLATES_MOCK.get(pair)
PAIR_TEMPLATES_MOCK(pair) ==
    CASE pair = "usdjpy" -> "tpl_usdjpy"
      [] pair = "eurusd" -> "tpl_eurusd"
      [] pair = "eurjpy" -> "tpl_eurjpy"
      [] pair = "gbpusd" -> "tpl_gbpusd"
      [] pair = "gbpjpy" -> "tpl_gbpjpy"
      [] pair = "audusd" -> "tpl_audusd"
      [] pair = "nzdusd" -> "tpl_nzdusd"
      [] pair = "xauusd" -> "tpl_xauusd"
      [] pair = "btcusd" -> "tpl_btcusd"
      [] OTHER           -> ""

_default_para2_for(pair) ==
    IF PAIR_TEMPLATES_MOCK(pair) # "" THEN <<PAIR_TEMPLATES_MOCK(pair)>>
    ELSE <<"tpl_audjpy">>

\* _default_para2_for exists in globals(), so its value is returned
_default_para2_for_safe(pair) == _default_para2_for(pair)

\* the ways _fetch_1h_metrics comes back without metrics: yfinance missing,
\* no ticker for the pair, history() None / empty / without the OHLC
\* columns / with a NaN in every row, history() raising (also on a timeout)
ProviderOutcomes ==
    {"no_yfinance", "no_ticker", "none", "empty", "missing_columns", "all_nan", "raises"}

\* _para2_from_live(pair, cfg)[0] for such a provider: no seed
LiveSeed(outcome) == IF outcome \in ProviderOutcomes THEN <<>> ELSE <<"seed">>

InitFallback ==
    /\ pc = "fb_start"
    /\ runs = 1
    /\ title_tail = NoTail
    /\ p1 = <<>>
    /\ p2 = <<>>
    /\ ss_para2_final = <<>>
    /\ recall_ok = TRUE
    /\ viol = {}
    /\ sink = <<>>
    /\ stages = <<>>
    /\ fn = "none"
    /\ arg \in [pair : LivePairs, outcome : ProviderOutcomes]
    /\ res = <<>>

fbframe == <<runs, title_tail, p1, ss_para2_final, recall_ok, sink, stages, fn, arg, res>>

\* default_para2_seed = _default_para2_for_safe(pair_name); the live seed
\* replaces it only when there is one
FbSeed ==
    /\ pc = "fb_start"
    /\ p2' = IF LiveSeed(arg.outcome) # <<>> THEN LiveSeed(arg.outcome)
             ELSE _default_para2_for_safe(arg.pair)
    /\ pc' = "fb_seeded"
    /\ UNCHANGED <<viol, fbframe>>

\* para2 = str(para2_raw).strip(), a full stop added when it has none
FbTextArea ==
    /\ pc = "fb_seeded"
    /\ p2' = LET t == Strip(p2) IN IF EndsWithMaru(t) \/ t = <<>> THEN t ELSE t \o <<MARU>>
    /\ pc' = "fb_para2"
    /\ UNCHANGED <<viol, fbframe>>

\* para2_final = pad_para2(para2_clean, 180), then the default closer when
\* no whitelist closer ends it
FbFinal ==
    /\ pc = "fb_para2"
    /\ LET padded == pad_para2_app(_clean_text_jp_safe(p2), P2_MIN_CHARS)
       IN  p2' = IF _ends_with_closer(padded) THEN padded
                 ELSE (IF EndsWithMaru(padded) THEN padded ELSE padded \o <<SP>>)
                      \o <<"c_miki">>
    /\ pc' = "fb_final"
    /\ UNCHANGED <<viol, fbframe>>

\* the entries of viol that come from paragraph 2
FbValidate ==
    /\ pc = "fb_final"
    /\ viol' = (IF TextLen(p2) < P2_MIN_CHARS THEN {"p2_min_chars"} ELSE {})
               \cup (IF Range(p2) \cap ban_words # {} THEN {"ban_words"} ELSE {})
    /\ pc' = "fb_validated"
    /\ UNCHANGED <<p2, fbframe>>

NextFallback ==
    \/ FbSeed
    \/ FbTextArea
    \/ FbFinal
    \/ FbValidate

SpecFallback == InitFallback /\ [][NextFallback]_vars

\* C21: when the market-data provider returns nothing, paragraph 2 is built
\* from the static template and the validation report of the assembled text
\* has no violation that comes from it: the fallback paragraph meets the
\* minimum length and the vocabulary rule.
C21_FallbackHasNoViolation ==
    pc = "fb_validated" =>
        /\ SelectTok(p2, {PAIR_TEMPLATES_MOCK(q) : q \in LivePairs} \cup {"tpl_audjpy"}) # <<>>
        /\ viol = {}

\* ---------------------------------------------------------------------
\* One script run with its two external calls: the market-data fetch of
\* the seed (app.py 1779-1795) and the calendar fetch (app.py 2204-2245)
\* ---------------------------------------------------------------------

\* what requests.get / raise_for_status / r.json() of _fxon_fetch_list can do
CalOutcomes == {"rows", "zero_rows", "timeout", "http_error", "bad_json"}

InitChain ==
    /\ pc = "ch_start"
    /\ runs = 1
    /\ title_tail = NoTail
    /\ p1 = <<>>
    /\ p2 = <<>>
    /\ ss_para2_final = <<>>
    /\ recall_ok = TRUE
    /\ viol = {}
    /\ sink = <<>>
    /\ stages = <<>>
    /\ fn = "none"
    /\ arg \in [pair : LivePairs, outcome : ProviderOutcomes, cal : CalOutcomes]
    /\ res = <<>>

\* the seed of paragraph 2: a failing provider is swallowed (per-ticker
\* try/except, the caller's try/except) and the static template is used
ChSeed ==
    /\ pc = "ch_start"
    /\ p2' = LET seed == IF LiveSeed(arg.outcome) # <<>> THEN LiveSeed(arg.outcome)
                         ELSE _default_para2_for_safe(arg.pair)
                 t    == Strip(seed)
             IN  IF EndsWithMaru(t) \/ t = <<>> THEN t ELSE t \o <<MARU>>
    /\ pc' = "ch_para2"
    /\ UNCHANGED <<viol, fbframe>>

\* items, http_status = _fxon_fetch_list(...): an exception reaches
\* "except Exception" and st.stop(); zero rows reach st.error and st.stop()
ChFxon ==
    /\ pc = "ch_para2"
    /\ IF arg.cal = "rows"
       THEN /\ res' = <<"ev">>
            /\ pc' = "ch_events"
       ELSE /\ res' = <<>>
            /\ pc' = "ch_stopped"
    /\ UNCHANGED <<runs, title_tail, p1, p2, ss_para2_final, recall_ok, viol, sink,
                   stages, fn, arg>>

\* para2_final, the layout check and the assembled report
ChFinal ==
    /\ pc = "ch_events"
    /\ LET padded == pad_para2_app(_clean_text_jp_safe(p2), P2_MIN_CHARS)
           final  == IF _ends_with_closer(padded) THEN padded
                     ELSE (IF EndsWithMaru(padded) THEN padded ELSE padded \o <<SP>>)
                          \o <<"c_miki">>
       IN  /\ p2' = final
           /\ viol' = (IF TextLen(final) < P2_MIN_CHARS THEN {"p2_min_chars"} ELSE {})
                      \cup (IF Range(final) \cap ban_words # {} THEN {"ban_words"} ELSE {})
           /\ sink' = final
    /\ pc' = "ch_done"
    /\ UNCHANGED <<runs, title_tail, p1, ss_para2_final, recall_ok, stages, fn, arg, res>>

NextChain ==
    \/ ChSeed
    \/ ChFxon
    \/ ChFinal

SpecChain == InitChain /\ [][NextChain]_vars

\* C22: whatever an external call does (time-out, error, nothing returned),
\* the run falls back to the next source and goes on to the final text and
\* the report: the run is never stopped before they are produced.
C22_BuildNeverAborted ==
    pc # "ch_stopped"

\* ---------------------------------------------------------------------
\* The three places where text of a language model can reach the report:
\* choose_title_tail, _make_cal_plus_recall, _compose_with_openai
\* ---------------------------------------------------------------------

\* what _llm_pick_from_list can return for the title tail
TailAnswers == SeqToSet(ALLOWED_TITLE_TAILS) \cup {"", "other"}

\* choose_title_tail: the LLM's answer if whitelisted, else random.choice
choose_title_tail(picked, rnd) ==
    IF picked \in SeqToSet(ALLOWED_TITLE_TAILS) THEN picked
    ELSE ALLOWED_TITLE_TAILS[rnd]

\* _call_llm_with_flags(prompt): nothing, or a sentence of the model's own
RecallAnswers == {"", "llm_recall"}

\* _compose_with_openai(payload): the four keys filled with the model's own
\* text, a missing key (ValueError), or a failing request
ComposeAnswers == {"json_ok", "missing_key", "http_error"}

\* text that only the model wrote: none of it is a candidate offered to it
LLMFreeText == {"other", "llm_recall", "llm_title", "llm_p1", "llm_p2", "llm_p3"}

InitCompose ==
    /\ pc = "co_start"
    /\ runs = 1
    /\ title_tail = NoTail
    /\ p1 = <<"p1_draft">>
    /\ p2 = <<"p2_draft">>
    /\ ss_para2_final = <<>>
    /\ recall_ok = TRUE
    /\ viol = {}
    /\ sink = <<>>
    /\ stages = <<>>
    /\ fn = "none"
    /\ arg \in [tail : TailAnswers, recall : RecallAnswers, compose : ComposeAnswers]
    /\ res = <<>>

\* title tail: picked if picked in ALLOWED_TITLE_TAILS else random.choice
Compose_choose_title_tail ==
    /\ pc = "co_start"
    /\ \E rnd \in 1..Len(ALLOWED_TITLE_TAILS) :
           title_tail' = choose_title_tail(arg.tail, rnd)
    /\ pc' = "co_tail"
    /\ UNCHANGED <<runs, p1, p2, ss_para2_final, recall_ok, viol, sink, stages, fn, arg, res>>

\* _make_cal_plus_recall: a non-empty answer of the model is the recall
\* sentence as it stands, otherwise the recall is made from the title
Compose_make_cal_plus_recall ==
    /\ pc = "co_tail"
    /\ LET recall == IF arg.recall # "" THEN arg.recall ELSE "recall_from_title"
       IN  sink' = <<"title", title_tail>> \o p1 \o p2 \o <<"cal_txt", recall>>
    /\ pc' = "co_report"
    /\ UNCHANGED <<runs, title_tail, p1, p2, ss_para2_final, recall_ok, viol, stages,
                   fn, arg, res>>

\* the button "LLM de saikumihan": report_final_main is overwritten with
\* the title and the three paragraphs of the answer; an exception leaves it
Compose_with_openai ==
    /\ pc = "co_report"
    /\ sink' = IF arg.compose = "json_ok"
               THEN <<"llm_title", "llm_p1", "llm_p2", "llm_p3">>
               ELSE sink
    /\ pc' = "co_done"
    /\ UNCHANGED <<runs, title_tail, p1, p2, ss_para2_final, recall_ok, viol, stages,
                   fn, arg, res>>

\* the run ends without the button being pressed
Compose_not_pressed ==
    /\ pc = "co_report"
    /\ pc' = "co_done"
    /\ UNCHANGED <<runs, title_tail, p1, p2, ss_para2_final, recall_ok, viol, sink,
                   stages, fn, arg, res>>

NextCompose ==
    \/ Compose_choose_title_tail
    \/ Compose_make_cal_plus_recall
    \/ Compose_with_openai
    \/ Compose_not_pressed

SpecCompose == InitCompose /\ [][NextCompose]_vars

\* C23: text of the language model is in the report only when it is one of
\* the candidates offered to the model: no text of the model's own making
\* is ever in the final text.
C23_OnlyApprovedModelText ==
    Range(sink) \cap LLMFreeText = {}

\* ---------------------------------------------------------------------
\* Two report generations in one server process (two script runs on two
\* threads): the module-level random generator and the file out/mYYYYMMDD.txt
\* ---------------------------------------------------------------------

Gens == {1, 2}

\* modules/phraser.py CLOSERS
CLOSERS == <<"c_miki", "c_chushi", "c_keikai", "c_youchui", "c_seikan",
             "pc_zairyo", "pc_modori", "pc_jukyu", "pc_kinkou">>

\* seed = None (the seeds given are naturals)
NoSeed == -1

\* the seed argument of pick_closer
Seeds == {NoSeed} \cup (0 .. 1)

\* the state of the generator of the module random, reduced to the index
\* its next choice yields
RngStates == 0 .. (Len(CLOSERS) - 1)

\* random.seed(seed): the state is a function of the seed alone
random_seed(seed) == seed % Len(CLOSERS)

\* random.choice(CLOSERS) in state st
random_choice(st) == CLOSERS[st + 1]

\* the state after one draw
random_advance(st) == (st + 1) % Len(CLOSERS)

\* pick_closer(seed) when no other thread runs in between
pick_closer(seed) == random_choice(random_seed(seed))

ConcPairs == {"usdjpy", "eurusd"}

\* text_to_show of a generation
text_to_show(pair, closer) == <<"title", PAIR_TEMPLATES_MOCK(pair), closer>>

InitConc ==
    /\ pc = [g \in Gens |-> "cc_start"]
    /\ runs = Cardinality(Gens)
    /\ title_tail = NoTail
    /\ p1 = <<>>
    /\ p2 = <<>>
    /\ ss_para2_final = <<>>
    /\ recall_ok = TRUE
    /\ viol = {}
    /\ sink = <<>>
    /\ stages = <<>>
    /\ fn = "none"
    /\ arg \in [Gens -> [seed : Seeds, pair : ConcPairs]]
    /\ \E st \in RngStates :
           res = [rng |-> st, closer |-> [g \in Gens |-> ""], text |-> [g \in Gens |-> <<>>]]

concframe == <<runs, title_tail, p1, p2, ss_para2_final, recall_ok, viol, stages, fn, arg>>

\* pick_closer, line 19-20: if seed is not None: random.seed(seed)
Conc_random_seed ==
    \E g \in Gens :
        /\ pc[g] = "cc_start"
        /\ res' = IF arg[g].seed # NoSeed
                  THEN [res EXCEPT !.rng = random_seed(arg[g].seed)]
                  ELSE res
        /\ pc' = [pc EXCEPT ![g] = "cc_seeded"]
        /\ UNCHANGED <<sink, concframe>>

\* pick_closer, line 21: return random.choice(CLOSERS); the text of the
\* generation is assembled with it
Conc_random_choice ==
    \E g \in Gens :
        /\ pc[g] = "cc_seeded"
        /\ LET c == random_choice(res.rng)
           IN  res' = [rng    |-> random_advance(res.rng),
                       closer |-> [res.closer EXCEPT ![g] = c],
                       text   |-> [res.text EXCEPT ![g] = text_to_show(arg[g].pair, c)]]
        /\ pc' = [pc EXCEPT ![g] = "cc_picked"]
        /\ UNCHANGED <<sink, concframe>>

\* save_path.write_text(text_to_show): save_path depends on the date only
Conc_save ==
    \E g \in Gens :
        /\ pc[g] = "cc_picked"
        /\ sink' = res.text[g]
        /\ pc' = [pc EXCEPT ![g] = "cc_saved"]
        /\ UNCHANGED <<res, concframe>>

NextConc ==
    \/ Conc_random_seed
    \/ Conc_random_choice
    \/ Conc_save

SpecConc == InitConc /\ [][NextConc]_vars

\* the closer a seeded generation selected is the one its seed gives
CloserIsOwn(g) ==
    (res.closer[g] # "" /\ arg[g].seed # NoSeed) => res.closer[g] = pick_closer(arg[g].seed)

\* the file a generation has saved holds the text it assembled
SavedIsOwn(g) ==
    pc[g] = "cc_saved" => sink = res.text[g]

\* C25: two generations that run at the same time share no mutable state:
\* the closer a generation selects with its seed and the text it has saved
\* are its own, whatever the other generation does.
C25_GenerationsShareNoState ==
    \A g \in Gens : CloserIsOwn(g) /\ SavedIsOwn(g)

====
